---- MODULE Spec2Model ----
(***************************************************************************)
(* A model of asl.py, the wxPython front end of oxford_asl.                *)
(*                                                                         *)
(* The state is the value held by every widget of the four tab pages, the  *)
(* fields of the data order preview (AslDataPreview) and the fields of the *)
(* run window (AslRun).  One action per event handler; an action is the    *)
(* whole handler, the calls to the update methods and to AslRun.update     *)
(* included.                                                               *)
(*                                                                         *)
(* Conventions                                                             *)
(*  - floating point widget values are held in hundredths (1.8 is 180);    *)
(*    "%.2f" and "%.5f" are the operators Fmt2 and Fmt5;                   *)
(*  - a character string that the code iterates over (the data order) is   *)
(*    a sequence of one-letter strings; Str3 gives its text;               *)
(*  - an FslCmd is the program name and the sequence of the pieces given   *)
(*    to FslCmd.add, FslCmd_str gives the text of FslCmd.cmd;              *)
(*  - the file system is the fixed set ExistingPaths and the function      *)
(*    img_shape (what nib.load(path).shape returns).                       *)
(*  - a cell of a NumberList holds a number, in hundredths, or the text    *)
(*    NonNumeric that float() rejects; the four tabs keep their            *)
(*    construction order;                                                  *)
(*  - the whole product of the widgets' values is not enumerated: each     *)
(*    specification below is a session on some of the widgets, from the    *)
(*    constructed state.                                                   *)
(***************************************************************************)
EXTENDS Integers, Sequences, FiniteSets, TLC

VARIABLES
    input,        \* AslInputOptions: the widgets of the "Input Data" tab
    analysis,     \* AslAnalysis: the widgets of the "Analysis" tab
    distcorr,     \* AslDistCorr: the widgets of the "Distortion Correction" tab
    calibration,  \* AslCalibration: the widgets of the "Calibration" tab
    preview,      \* PreviewPanel.order_preview: the fields of AslDataPreview
    run,          \* AslRun: run_seq, the run button and the status label
    call,         \* arguments of a direct call of a method (unit harness)
    ret,          \* what the direct call returned
    output_text,  \* AslRun.output_text: the pieces of text appended since Clear()
    frame,        \* AslRun.dorun and FslCmd.run: the place in the code and the locals
    proc          \* the child process of subprocess.Popen and its output pipe

vars == <<input, analysis, distcorr, calibration, preview, run, call, ret,
          output_text, frame, proc>>

-----------------------------------------------------------------------------
(* Bounds of the model *)

\* the largest number of PLDs the spin control is driven to (the control allows 100)
MaxTis == 3
\* the largest repeat count given to the data order preview in direct calls
MaxRepeats == 3

-----------------------------------------------------------------------------
(* Values *)

\* Python's None, where the other values are no paths (no exception, no image)
None == "None"

\* what an accessor of a path returns: Python's None, which no path equals,
\* or the path the picker holds, whatever its text
NoPath == <<>>
SomePath(p) == <<p>>
Path(o) == o[1]

\* a Python call evaluates its argument once, then runs the body on the value
Call(F(_), x) == CHOOSE r \in {F(v) : v \in {x}} : TRUE

\* min(a, b)
Min(a, b) == IF a < b THEN a ELSE b

\* two decimal digits of n (0 <= n < 100)
Pad2(n) == (IF n < 10 THEN "0" ELSE "") \o ToString(n)

\* five decimal digits of n (0 <= n < 100000)
Pad5(n) ==
    (IF n < 10 THEN "0000" ELSE IF n < 100 THEN "000" ELSE IF n < 1000 THEN "00"
     ELSE IF n < 10000 THEN "0" ELSE "") \o ToString(n)

\* "%.2f" % v, v held in hundredths: the sign, then the digits of the magnitude
Fmt2(v) ==
    LET m == IF v < 0 THEN 0 - v ELSE v
    IN  (IF v < 0 THEN "-" ELSE "") \o ToString(m \div 100) \o "." \o Pad2(m % 100)

\* "%.5f" % v, v held in hundredths
Fmt5(v) == Fmt2(v) \o "000"

\* "%.5f" % (v / 1000), v held in hundredths
Fmt5_div1000(v) == ToString(v \div 100000) \o "." \o Pad5(v % 100000)

\* "%i" % n
FmtI(n) == ToString(n)

\* str(b) of a Python bool
FmtBool(b) == IF b THEN "True" ELSE "False"

\* '"%s"' % p
Quoted(p) == "\"" \o p \o "\""

\* ",".join(s) of a sequence of strings
RECURSIVE JoinComma(_)
JoinComma(s) ==
    IF Len(s) = 0 THEN ""
    ELSE IF Len(s) = 1 THEN s[1]
    ELSE s[1] \o "," \o JoinComma(Tail(s))

\* the text of a sequence of one-letter strings
Str3(o) == o[1] \o o[2] \o o[3]

\* s[::-1]
Reverse(s) == [i \in 1..Len(s) |-> s[Len(s) + 1 - i]]

-----------------------------------------------------------------------------
(* The file system and the image loader *)

\* the paths for which os.path.exists is true
ExistingPaths ==
    {"/data/asl10.nii", "/data/asl12.nii", "/data/asl24.nii", "/data/struct3d.nii",
     "/data/aux.nii", "/data/anat.anat"}

exists(path) == path \in ExistingPaths

\* nib.load(path).shape of an existing file, as <<number of dimensions, size
\* of the 4th dimension>>; <<0, 0>> when nib.load raises (not an image)
img_shape(path) ==
    CASE path = "/data/asl10.nii" -> <<4, 10>>
      [] path = "/data/asl12.nii" -> <<4, 12>>
      [] path = "/data/asl24.nii" -> <<4, 24>>
      [] path = "/data/struct3d.nii" -> <<3, 0>>
      [] path = "/data/aux.nii" -> <<3, 0>>
      [] OTHER -> <<0, 0>>

-----------------------------------------------------------------------------
(* FslCmd *)

\* one piece of text given to FslCmd.add: an option, what separates it from
\* its value, and the value ("" and "" for a bare flag)
Tok(opt, sep, val) == [opt |-> opt, sep |-> sep, val |-> val]
Flag(opt) == Tok(opt, "", "")
TokStr(t) == t.opt \o t.sep \o t.val

\* FslCmd.__init__ with none of the local or $FSLDIR executables found
FslCmd(prog) == [prog |-> prog, args |-> <<>>]

\* FslCmd.add with val=None
FslCmd_add(c, t) == [c EXCEPT !.args = Append(@, t)]

\* FslCmd.add of each piece of ts in turn
RECURSIVE FslCmd_addall(_, _)
FslCmd_addall(c, ts) ==
    IF Len(ts) = 0 THEN c ELSE FslCmd_addall(FslCmd_add(c, Head(ts)), Tail(ts))

\* self.cmd: every add appends " " and the piece
RECURSIVE ArgsStr(_)
ArgsStr(ts) == IF Len(ts) = 0 THEN "" ELSE " " \o TokStr(Head(ts)) \o ArgsStr(Tail(ts))
FslCmd_str(c) == c.prog \o ArgsStr(c.args)

\* the options of a command, and whether it has a given option
Opts(c) == {c.args[i].opt : i \in 1..Len(c.args)}
HasOpt(c, opt) == opt \in Opts(c)
HasTok(c, t) == \E i \in 1..Len(c.args) : c.args[i] = t

-----------------------------------------------------------------------------
(* AslRun.order_opts and AslRun.get_data_order_options *)

\* the class attribute order_opts; each value is the sequence of the
\* blank-separated options of the literal
order_opts ==
    ("trp" :> <<Tok("--ibf", "=", "tis"), Tok("--iaf", "=", "diff")>>) @@
    ("trp,tc" :> <<Tok("--ibf", "=", "tis"), Tok("--iaf", "=", "tcb")>>) @@
    ("trp,ct" :> <<Tok("--ibf", "=", "tis"), Tok("--iaf", "=", "ctb")>>) @@
    ("rtp" :> <<Tok("--ibf", "=", "rpt"), Tok("--iaf", "=", "diff")>>) @@
    ("rtp,tc" :> <<Flag("--rpt"), Tok("--iaf", "=", "tcb")>>) @@
    ("rtp,ct" :> <<Tok("--ibf", "=", "rpt"), Tok("--iaf", "=", "ctb")>>) @@
    ("ptr,tc" :> <<Tok("--ibf", "=", "tis"), Tok("--iaf", "=", "tc")>>) @@
    ("ptr,ct" :> <<Tok("--ibf", "=", "tis"), Tok("--iaf", "=", "ct")>>) @@
    ("prt,tc" :> <<Tok("--ibf", "=", "rpt"), Tok("--iaf", "=", "tc")>>) @@
    ("prt,ct" :> <<Tok("--ibf", "=", "rpt"), Tok("--iaf", "=", "ct")>>)

\* the text of an order_opts value
RECURSIVE JoinBlank(_)
JoinBlank(ts) ==
    IF Len(ts) = 0 THEN ""
    ELSE IF Len(ts) = 1 THEN TokStr(ts[1])
    ELSE TokStr(ts[1]) \o " " \o JoinBlank(Tail(ts))

\* order_key without the suffix of the pairs
order_key_plain(order, tagfirst, tc_pairs) == Str3(order)

\* the key looked up: the order, with ",tc" or ",ct" when there are pairs
order_key(order, tagfirst, tc_pairs) ==
    Str3(order) \o (IF tc_pairs THEN (IF tagfirst THEN ",tc" ELSE ",ct") ELSE "")

\* get_data_order_options with a default entry in place of the RuntimeError
get_data_order_options_default(order, tagfirst, tc_pairs) ==
    LET key == order_key(order, tagfirst, tc_pairs)
        diff_opt == IF tc_pairs THEN "--diff" ELSE ""
    IN  [raised |-> None,
         opts |-> IF key \in DOMAIN order_opts THEN order_opts[key] ELSE order_opts["trp"],
         diff_opt |-> diff_opt]

\* get_data_order_options, from (order, tagfirst) = self.input.data_order() and
\* self.input.tc_pairs(): the options and diff_opt, or the RuntimeError raised
get_data_order_options(order, tagfirst, tc_pairs) ==
    LET key == order_key(order, tagfirst, tc_pairs)
        diff_opt == IF tc_pairs THEN "--diff" ELSE ""
    IN  IF key \notin DOMAIN order_opts
        THEN [raised |-> "This data ordering is not supported by ASL_FILE",
              opts |-> <<>>, diff_opt |-> diff_opt]
        ELSE [raised |-> None, opts |-> order_opts[key], diff_opt |-> diff_opt]

-----------------------------------------------------------------------------
(* AslDataPreview.on_paint: the sequence of volume markers *)

\* expand with one repeat too many
expand_extra_repeat(t, i, n_tis, n_repeats, tc_pairs, tagfirst) ==
    IF t = "t" THEN [k \in 1..n_tis |-> i]
    ELSE IF t = "p" THEN
        IF ~tc_pairs THEN <<i>>
        ELSE IF tagfirst THEN <<i, i + 1>>
        ELSE <<i + 1, i>>
    ELSE IF t = "r" THEN <<i>> \o [k \in 1..n_repeats |-> i + 2]
    ELSE <<>>

\* what one letter t of the order makes of one marker i
expand(t, i, n_tis, n_repeats, tc_pairs, tagfirst) ==
    IF t = "t" THEN [k \in 1..n_tis |-> i]
    ELSE IF t = "p" THEN
        IF ~tc_pairs THEN <<i>>
        ELSE IF tagfirst THEN <<i, i + 1>>
        ELSE <<i + 1, i>>
    ELSE IF t = "r" THEN <<i>> \o [k \in 1..(n_repeats - 1) |-> i + 2]
    ELSE <<>>

\* the inner loop "for i in temp" for one letter
RECURSIVE expand_all(_, _, _, _, _, _)
expand_all(t, temp, n_tis, n_repeats, tc_pairs, tagfirst) ==
    IF Len(temp) = 0 THEN <<>>
    ELSE expand(t, Head(temp), n_tis, n_repeats, tc_pairs, tagfirst)
         \o expand_all(t, Tail(temp), n_tis, n_repeats, tc_pairs, tagfirst)

\* the outer loop over the letters rest, from the sequence seq
RECURSIVE paint_loop(_, _, _, _, _, _)
paint_loop(rest, seq, n_tis, n_repeats, tc_pairs, tagfirst) ==
    IF Len(rest) = 0 THEN seq
    ELSE paint_loop(Tail(rest),
                    expand_all(Head(rest), seq, n_tis, n_repeats, tc_pairs, tagfirst),
                    n_tis, n_repeats, tc_pairs, tagfirst)

\* seq as on_paint builds it: from [1,], for t in self.order[::-1]
on_paint_seq(order, n_tis, n_repeats, tc_pairs, tagfirst) ==
    paint_loop(Reverse(order), <<1>>, n_tis, n_repeats, tc_pairs, tagfirst)

\* the first place, counted from 0 and not before idx, of the marker 1 in
\* seq; -1 when there is none
RECURSIVE first_one(_, _)
first_one(seq, idx) ==
    IF idx >= Len(seq) THEN -1
    ELSE IF seq[idx + 1] = 1 THEN idx
    ELSE first_one(seq, idx + 1)

\* ti_sep measured from the start of the sequence, not from the first marker 1
on_paint_ti_sep_from_start(seq) ==
    LET tistart == first_one(seq, 0)
        second == IF tistart < 0 THEN -1 ELSE first_one(seq, tistart + 1)
    IN  IF second < 0 THEN 1 ELSE second

\* lines 1235-1242: ti_sep, the distance between the first two markers 1
on_paint_ti_sep(seq) ==
    LET tistart == first_one(seq, 0)
        second == IF tistart < 0 THEN -1 ELSE first_one(seq, tistart + 1)
    IN  IF second < 0 THEN 1 ELSE second - tistart

\* lines 1244-1267: the timing index with which each volume from idx on is
\* drawn, ti being the index at idx
RECURSIVE on_paint_ti(_, _, _, _, _)
on_paint_ti(idx, n, ti, ti_sep, n_tis) ==
    IF idx >= n THEN <<>>
    ELSE <<ti>> \o on_paint_ti(idx + 1, n,
                               IF (idx + 1) % ti_sep = 0
                               THEN (IF ti + 1 = n_tis THEN 0 ELSE ti + 1)
                               ELSE ti,
                               ti_sep, n_tis)

\* N as on_paint computes it
on_paint_N(n_tis, n_repeats, tc_pairs) ==
    (n_tis * n_repeats) * (IF tc_pairs THEN 2 ELSE 1)

-----------------------------------------------------------------------------
(* The widgets after construction (AslGui.__init__ before the tab.update() calls) *)

\* Enable(flag) of the widget named name, in the set en of the enabled widgets
Enable(en, name, flag) == IF flag THEN en \cup {name} ELSE en \ {name}

\* NumberList.set_size: new columns take the last cell's value (or the default)
NumberList_default == 180

\* NumberChooser(min=0, max=2.5) of bolus_dur_num: orig_max, in hundredths
bolus_dur_num_orig_max == 250

\* the text of a cell that is no number (letters, or nothing): it stands
\* outside the numbers a session types into the cells
NonNumeric == -1000000

\* NumberList.GetValues: the numbers of the cells, or the RuntimeError that
\* takes the place of float()'s ValueError
NumberList_GetValues(cells) ==
    IF \E c \in 1..Len(cells) : cells[c] = NonNumeric
    THEN [raised |-> "Non-numeric values in number list", value |-> <<>>]
    ELSE [raised |-> None, value |-> cells]
\* set_size that adds columns and never deletes any
NumberList_set_size_grow_only(cells, n) ==
    LET old == Len(cells)
        default == IF old = 0 THEN NumberList_default ELSE cells[old]
    IN  IF n > old THEN cells \o [c \in 1..(n - old) |-> default]
        ELSE cells

NumberList_set_size(cells, n) ==
    LET old == Len(cells)
        default == IF old = 0 THEN NumberList_default ELSE cells[old]
    IN  IF n > old THEN cells \o [c \in 1..(n - old) |-> default]
        ELSE IF n < old THEN SubSeq(cells, 1, n)
        ELSE cells

\* AslInputOptions.__init__
AslInputOptions_init ==
    [data_picker |-> "",
     ntis_int |-> 1,
     nrepeats_label |-> "<Unknown>",
     choice1 |-> 2, choice1_n |-> 3,
     choice2 |-> 0, choice2_n |-> 3,
     tc_cb |-> TRUE, tc_ch |-> 0,
     labelling_ch |-> 1,
     bolus_dur_ch |-> 0,
     bolus_dur_num |-> 180, bolus_dur_num_max |-> bolus_dur_num_orig_max,
     bolus_dur_list |-> NumberList_set_size(<<>>, 1),
     ti_list |-> NumberList_set_size(<<>>, 1),
     readout_ch |-> 0,
     time_per_slice_num |-> 1000,
     multiband_cb |-> FALSE,
     slices_per_band_spin |-> 5,
     fsl_anat_cb |-> TRUE, fsl_anat_picker |-> "",
     struc_image_cb |-> FALSE, struc_image_picker |-> "",
     struc_image_ch |-> 0,
     struc_image_brain_picker |-> "",
     enabled |-> {"tc_ch", "bolus_dur_num", "struc_image_cb", "struc_image_ch",
                  "struc_image_brain_picker", "fsl_anat_picker"}]

\* AslAnalysis.__init__
AslAnalysis_init ==
    [transform_cb |-> FALSE, transform_ch |-> 2, transform_ch_n |-> 3,
     transform_picker |-> "",
     outdir_picker |-> "",
     mask_cb |-> FALSE, mask_picker |-> "",
     wp_cb |-> FALSE,
     bat_num |-> 130, t1_num |-> 130, t1b_num |-> 165, ie_num |-> 85,
     spatial_cb |-> TRUE, infer_t1_cb |-> FALSE, macro_cb |-> FALSE,
     fixbolus_cb |-> TRUE, pv_cb |-> FALSE, mc_cb |-> FALSE,
     enabled |-> {"bat_num", "t1_num"}]

\* AslDistCorr.__init__
AslDistCorr_init ==
    [distcorr_cb |-> FALSE, distcorr_ch |-> 0, distcorr_ch_n |-> 1,
     echosp_num |-> 50, pedir_ch |-> 0,
     fmap_picker |-> "", fmap_mag_picker |-> "",
     fmap_mag_be_cb |-> FALSE, cblip_cb |-> FALSE,
     enabled |-> {"echosp_num", "pedir_ch", "fmap_picker", "fmap_mag_picker",
                  "fmap_mag_be_cb", "cblip_cb"}]

\* AslCalibration.__init__
AslCalibration_init ==
    [calib_cb |-> FALSE, calib_image_picker |-> "",
     m0_type_ch |-> 0, seq_tr_num |-> 600, calib_gain_num |-> 100,
     calib_mode_ch |-> 0, ref_tissue_type_ch |-> 0,
     ref_tissue_mask_cb |-> FALSE, ref_tissue_mask_picker |-> "",
     seq_te_num |-> 0, blood_t2_num |-> 15000,
     coil_image_cb |-> FALSE, coil_image_picker |-> "",
     ref_t1_num |-> 430, ref_t2_num |-> 75000,
     enabled |-> {"calib_image_picker", "m0_type_ch", "seq_tr_num", "calib_gain_num",
                  "calib_mode_ch", "ref_tissue_type_ch", "ref_tissue_mask_cb",
                  "seq_te_num", "blood_t2_num", "coil_image_cb", "ref_t1_num",
                  "ref_t2_num"}]

\* AslDataPreview(self, 1, 1, True, "trp", True) in PreviewPanel.__init__
AslDataPreview_init ==
    [n_tis |-> 1, n_repeats |-> 1, tc_pairs |-> TRUE,
     order |-> <<"t", "r", "p">>, tagfirst |-> TRUE]

\* AslRun.__init__: run_seq is not set before the first update.  The value
\* None of run_seq is the empty list: dorun tests "if self.run_seq", and
\* get_run_sequence never returns an empty list
AslRun_init ==
    [run_seq |-> <<>>, run_btn |-> TRUE, run_label |-> "Unchecked"]

\* the phase encoding directions, and the reference tissue types
pedir_choices == <<"x", "y", "z", "-x", "-y", "-z">>
ref_tissue_type_choices == <<"csf", "wm", "gm", "none">>

-----------------------------------------------------------------------------
(* The accessors of the tab pages; w is the record of the six objects *)

\* AslInputOptions
ntis(w) == w.input.ntis_int
data_order(w) == <<w.preview.order, w.preview.tagfirst>>
tc_pairs(w) == w.input.tc_cb
labelling(w) == w.input.labelling_ch
bolus_dur_type(w) == w.input.bolus_dur_ch
\* what bolus_dur and tis return: the list in value, or in raised the
\* exception that GetValues has raised
bolus_dur(w) ==
    IF bolus_dur_type(w) = 0
    THEN [raised |-> None, value |-> <<w.input.bolus_dur_num>>]
    ELSE NumberList_GetValues(w.input.bolus_dur_list)
tis(w) ==
    LET got == NumberList_GetValues(w.input.ti_list)
        bd == bolus_dur(w)
        bolus_durs == IF Len(bd.value) = 1 THEN [i \in 1..ntis(w) |-> bd.value[1]]
                      ELSE bd.value
    IN  IF got.raised # None \/ labelling(w) # 1 THEN got
        ELSE IF bd.raised # None THEN bd
        ELSE [raised |-> None,
              value |-> [i \in 1..Min(Len(got.value), Len(bolus_durs)) |->
                             got.value[i] + bolus_durs[i]]]
readout(w) == w.input.readout_ch
fsl_anat(w) == IF w.input.fsl_anat_cb THEN SomePath(w.input.fsl_anat_picker) ELSE NoPath
struc_image_bet(w) == w.input.struc_image_ch
struc_image(w) ==
    IF w.input.struc_image_cb /\ fsl_anat(w) \in {NoPath, SomePath("")}
    THEN SomePath(w.input.struc_image_picker) ELSE NoPath
struc_image_brain(w) ==
    IF w.input.struc_image_cb /\ fsl_anat(w) \in {NoPath, SomePath("")}
       /\ struc_image_bet(w) = 0
    THEN SomePath(w.input.struc_image_brain_picker) ELSE NoPath

\* AslAnalysis
mask(w) == IF w.analysis.mask_cb THEN SomePath(w.analysis.mask_picker) ELSE NoPath
wp(w) == w.analysis.wp_cb
transform(w) == w.analysis.transform_cb
transform_type(w) == w.analysis.transform_ch

\* AslCalibration
calib(w) == w.calibration.calib_cb
m0_type(w) == w.calibration.m0_type_ch
calib_mode(w) == w.calibration.calib_mode_ch
ref_tissue_mask(w) ==
    IF w.calibration.ref_tissue_mask_cb THEN SomePath(w.calibration.ref_tissue_mask_picker)
    ELSE NoPath
coil_image(w) ==
    IF w.calibration.coil_image_cb THEN SomePath(w.calibration.coil_image_picker) ELSE NoPath

-----------------------------------------------------------------------------
(***************************************************************************)
(* AslRun.get_run_sequence                                                 *)
(*                                                                         *)
(* The method is a straight line of statements, any of which may raise.    *)
(* Its progress is a record a: the exception raised so far (None while     *)
(* there is none), the list run, the command cmd, and the two things it    *)
(* writes outside (the repeats label and the fields of the preview).       *)
(* Every statement leaves a alone once an exception is raised.             *)
(***************************************************************************)

raise(a0, msg) ==
    Call(LAMBDA a : (
     IF a.raised # None THEN a ELSE [a EXCEPT !.raised = msg]
    ), a0)

\* AslRun.check_exists
check_exists(a, label, file) ==
    IF ~exists(file) THEN raise(a, label \o " - no such file or directory") ELSE a

\* cmd.add(...)
add(a0, t) ==
    Call(LAMBDA a : (
     IF a.raised # None THEN a ELSE [a EXCEPT !.cmd = FslCmd_add(@, t)]
    ), a0)

\* cmd.add(...) of a text made from the list a call returns: the exception
\* of that call, if it raised one, goes up in place of the add
add_eval(a0, raised, t) ==
    Call(LAMBDA a : (
     IF a.raised # None THEN a
     ELSE IF raised # None THEN [a EXCEPT !.raised = raised]
     ELSE [a EXCEPT !.cmd = FslCmd_add(@, t)]
    ), a0)

\* run.append(c)
run_append(a0, c) ==
    Call(LAMBDA a : (
     IF a.raised # None THEN a ELSE [a EXCEPT !.run = Append(@, c)]
    ), a0)

\* "if cond: <statement>"
when(cond, a, b) == IF cond THEN b ELSE a

\* lines 433: run = []
run_start(w) ==
    [raised |-> None, run |-> <<>>, cmd |-> FslCmd("oxford_asl"),
     nrepeats_label |-> w.input.nrepeats_label, preview |-> w.preview]

\* seg_input with N the number of TIs, pairs or not
seg_input_nopairs(w, a0) ==
    Call(LAMBDA a : (
        LET data == w.input.data_picker
            shape == img_shape(data)
            nvols == shape[2]
            N == ntis(w)
        IN  IF ~exists(data) THEN check_exists(a, "Input data", data)
            ELSE IF shape[1] = 0 THEN raise(a, "Cannot work out file type of " \o Quoted(data))
            ELSE IF shape[1] # 4 THEN raise(a, "Input data is not a 4D image")
            ELSE IF nvols % N # 0
            THEN raise([a EXCEPT !.nrepeats_label = "<Unknown>"],
                       "Input data contains " \o FmtI(nvols)
                       \o " volumes - not consistent with " \o FmtI(ntis(w))
                       \o " TIs and TC pairs=" \o FmtBool(tc_pairs(w)))
            ELSE [a EXCEPT !.nrepeats_label = FmtI(nvols \div N),
                           !.preview.n_tis = ntis(w),
                           !.preview.n_repeats = nvols \div N,
                           !.preview.tc_pairs = tc_pairs(w),
                           !.preview.tagfirst = (w.input.tc_ch = 0)]
    ), a0)

\* lines 436-453: the input file exists, is a 4D image, and its volumes are
\* consistent with the TIs and the pairs; the preview gets the four numbers
seg_input(w, a0) ==
    Call(LAMBDA a : (
        LET data == w.input.data_picker
            shape == img_shape(data)
            nvols == shape[2]
            N == ntis(w) * (IF tc_pairs(w) THEN 2 ELSE 1)
        IN  IF ~exists(data) THEN check_exists(a, "Input data", data)
            ELSE IF shape[1] = 0 THEN raise(a, "Cannot work out file type of " \o Quoted(data))
            ELSE IF shape[1] # 4 THEN raise(a, "Input data is not a 4D image")
            ELSE IF nvols % N # 0
            THEN raise([a EXCEPT !.nrepeats_label = "<Unknown>"],
                       "Input data contains " \o FmtI(nvols)
                       \o " volumes - not consistent with " \o FmtI(ntis(w))
                       \o " TIs and TC pairs=" \o FmtBool(tc_pairs(w)))
            ELSE [a EXCEPT !.nrepeats_label = FmtI(nvols \div N),
                           !.preview.n_tis = ntis(w),
                           !.preview.n_repeats = nvols \div N,
                           !.preview.tc_pairs = tc_pairs(w),
                           !.preview.tagfirst = (w.input.tc_ch = 0)]
    ), a0)

\* lines 456-458
seg_outdir(w, a0) ==
    Call(LAMBDA a : (
        when(w.analysis.outdir_picker = "", a, raise(a, "Output directory not specified"))
    ), a0)

\* seg_order with the tag-first flag the preview held before the call
seg_order_stale(w, a0) ==
    Call(LAMBDA a : (
        LET oo == get_data_order_options(a.preview.order, w.preview.tagfirst, tc_pairs(w))
        IN  IF a.raised # None THEN a
            ELSE IF oo.raised # None THEN raise(a, oo.raised)
            ELSE [a EXCEPT !.cmd = FslCmd_addall(@, oo.opts)]
    ), a0)

\* line 464: the order options, looked up with what the preview now holds
seg_order(w, a0) ==
    Call(LAMBDA a : (
        LET oo == get_data_order_options(a.preview.order, a.preview.tagfirst, tc_pairs(w))
        IN  IF a.raised # None THEN a
            ELSE IF oo.raised # None THEN raise(a, oo.raised)
            ELSE [a EXCEPT !.cmd = FslCmd_addall(@, oo.opts)]
    ), a0)

\* lines 461-466
seg_head(w, a0) ==
    Call(LAMBDA a : (
        LET a1 == add(a, Tok(" -i", " ", Quoted(w.input.data_picker)))
            a2 == add(a1, Tok("-o", " ", Quoted(w.analysis.outdir_picker)))
            a3 == seg_order(w, a2)
            a4 == Call(LAMBDA t : add_eval(a3, t.raised,
                           Tok("--tis", " ",
                               JoinComma([i \in 1..Len(t.value) |-> Fmt2(t.value[i])]))),
                       tis(w))
        IN  Call(LAMBDA b : add_eval(a4, b.raised,
                     Tok("--bolus", " ",
                         JoinComma([i \in 1..Len(b.value) |-> Fmt2(b.value[i])]))),
                 bolus_dur(w))
    ), a0)

\* lines 467-471
seg_wp(w, a0) ==
    Call(LAMBDA a : (
        IF wp(w) THEN add(a, Flag("--wp"))
        ELSE add(add(a, Tok("--t1", " ", Fmt2(w.analysis.t1_num))),
                 Tok("--bat", " ", Fmt2(w.analysis.bat_num)))
    ), a0)

\* lines 472-476
seg_fixed(w, a0) ==
    Call(LAMBDA a : (
        LET b(x) == IF x THEN "1" ELSE "0"
            a1 == add(a, Tok("--t1b", " ", Fmt2(w.analysis.t1b_num)))
            a2 == add(a1, Tok("--alpha", " ", Fmt2(w.analysis.ie_num)))
            a3 == add(a2, Tok("--spatial", "=", b(w.analysis.spatial_cb)))
            a4 == add(a3, Tok("--fixbolus", "=", b(w.analysis.fixbolus_cb)))
        IN  add(a4, Tok("--mc", "=", b(w.analysis.mc_cb)))
    ), a0)

\* lines 477-479
seg_flags(w, a0) ==
    Call(LAMBDA a : (
        LET a1 == when(w.analysis.infer_t1_cb, a, add(a, Flag("--infert1")))
            a2 == when(w.analysis.pv_cb, a1, add(a1, Flag("--pvcorr")))
        IN  when(~w.analysis.macro_cb, a2, add(a2, Flag("--artoff")))
    ), a0)

\* seg_mask with the file looked for whether the mask is in use or not
seg_mask_eager(w, a0) ==
    Call(LAMBDA a : (
        LET a1 == check_exists(a, "Analysis mask", w.analysis.mask_picker)
        IN  when(mask(w) # NoPath, a1, add(a1, Tok("-m", " ", Quoted(Path(mask(w))))))
    ), a0)

\* lines 480-482
seg_mask(w, a0) ==
    Call(LAMBDA a : (
        when(mask(w) # NoPath, a,
             add(check_exists(a, "Analysis mask", Path(mask(w))),
                 Tok("-m", " ", Quoted(Path(mask(w))))))
    ), a0)

\* seg_casl with the flag for the cASL/pcASL labelling left out
seg_casl_never(w, a0) == a0

\* lines 483-484
seg_casl(w, a0) ==
    Call(LAMBDA a : (
     when(labelling(w) = 1, a, add(a, Flag("--casl")))
    ), a0)

\* lines 485-493
seg_transform(w, a0) ==
    Call(LAMBDA a : (
        LET file == w.analysis.transform_picker
        IN  when(transform(w), a,
                 IF transform_type(w) = 0
                 THEN add(check_exists(a, "Transformation matrix", file),
                          Tok("--asl2struc", " ", Quoted(file)))
                 ELSE IF transform_type(w) = 1
                 THEN add(check_exists(a, "Warp image", file),
                          Tok("--regfrom", " ", Quoted(file)))
                 ELSE a)
    ), a0)

\* seg_struc with the brain extraction run on the copy of the structural image
seg_struc_bet_copy(w, a0) ==
    Call(LAMBDA a : (
        LET fsl_anat_dir == fsl_anat(w)
            struc == struc_image(w)
            outdir == w.analysis.outdir_picker
            head == Quoted(outdir \o "/structural_head")
            brain == Quoted(outdir \o "/structural_brain")
            cp == FslCmd_add(FslCmd_add(FslCmd("imcp"), Flag(Quoted(Path(struc)))), Flag(head))
            bet == FslCmd_add(FslCmd_add(FslCmd("bet"), Flag(head)), Flag(brain))
            struc_brain == struc_image_brain(w)
            cp2 == FslCmd_add(FslCmd_add(FslCmd("imcp"), Flag(Quoted(Path(struc_brain)))), Flag(brain))
            a1 == run_append(check_exists(a, "Structural image", Path(struc)), cp)
            a2 == IF struc_image_bet(w) = 1 THEN run_append(a1, bet)
                  ELSE run_append(check_exists(a1, "Structural brain image", Path(struc_brain)), cp2)
        IN  IF a.raised # None THEN a
            ELSE IF fsl_anat_dir # NoPath
            THEN add(check_exists(a, "FSL_ANAT", Path(fsl_anat_dir)),
                     Tok("--fslanat", "=", Quoted(Path(fsl_anat_dir))))
            ELSE IF struc # NoPath
            THEN add(add(a2, Tok("--s", " ", head)), Tok("--sbrain", " ", brain))
            ELSE a
    ), a0)

\* lines 495-523: the structural image, with the commands that stage it
seg_struc(w, a0) ==
    Call(LAMBDA a : (
        LET fsl_anat_dir == fsl_anat(w)
            struc == struc_image(w)
            outdir == w.analysis.outdir_picker
            head == Quoted(outdir \o "/structural_head")
            brain == Quoted(outdir \o "/structural_brain")
            cp == FslCmd_add(FslCmd_add(FslCmd("imcp"), Flag(Quoted(Path(struc)))), Flag(head))
            bet == FslCmd_add(FslCmd_add(FslCmd("bet"), Flag(Quoted(Path(struc)))), Flag(brain))
            struc_brain == struc_image_brain(w)
            cp2 == FslCmd_add(FslCmd_add(FslCmd("imcp"), Flag(Quoted(Path(struc_brain)))), Flag(brain))
            a1 == run_append(check_exists(a, "Structural image", Path(struc)), cp)
            a2 == IF struc_image_bet(w) = 1 THEN run_append(a1, bet)
                  ELSE run_append(check_exists(a1, "Structural brain image", Path(struc_brain)), cp2)
        IN  IF a.raised # None THEN a
            ELSE IF fsl_anat_dir # NoPath
            THEN add(check_exists(a, "FSL_ANAT", Path(fsl_anat_dir)),
                     Tok("--fslanat", "=", Quoted(Path(fsl_anat_dir))))
            ELSE IF struc # NoPath
            THEN add(add(a2, Tok("--s", " ", head)), Tok("--sbrain", " ", brain))
            ELSE a
    ), a0)

\* lines 525-529
seg_readout(w, a0) ==
    Call(LAMBDA a : (
        when(readout(w) = 1, a,
             LET a1 == add(a, Tok("--slicedt", " ", Fmt5_div1000(w.input.time_per_slice_num)))
             IN  when(w.input.multiband_cb, a1,
                      add(a1, Tok("--sliceband", " ", FmtI(w.input.slices_per_band_spin)))))
    ), a0)

\* self.distcorr.fmap_be() at line 538: AslDistCorr has fmap_mag_be (line 708)
\* and no fmap_be, so that the call raises this AttributeError
fmap_be_error == "'AslDistCorr' object has no attribute 'fmap_be'"

\* lines 531-545
seg_distcorr(w, a0) ==
    Call(LAMBDA a : (
        LET fmap == w.distcorr.fmap_picker
            mag == w.distcorr.fmap_mag_picker
            f1 == add(check_exists(a, "Fieldmap image", fmap), Tok("--fmap", "=", Quoted(fmap)))
            f2 == check_exists(f1, "Fieldmap magnitude image", mag)
            \* lines 539-541 (--fmapmagbrain, --fmapmag) are never reached
            f3 == raise(f2, fmap_be_error)
            a1 == IF w.distcorr.distcorr_ch = 0 THEN f3
                  ELSE when(w.distcorr.cblip_cb, a, add(a, Flag("--cblip")))
            a2 == add(a1, Tok("--echospacing", "=", Fmt5(w.distcorr.echosp_num)))
        IN  when(w.distcorr.distcorr_cb, a,
                 add(a2, Tok("--pedir", "=", pedir_choices[w.distcorr.pedir_ch + 1])))
    ), a0)

\* lines 560-575: the calibration options after the M0 type
seg_calib_mode(w, a0) ==
    Call(LAMBDA a : (
        LET c == w.calibration
            a1 == add(a, Tok("--cgain", " ", Fmt2(c.calib_gain_num)))
            s1 == add(a1, Tok("--cmethod", " ", "single"))
            s2 == add(s1, Tok("--tissref", " ", ref_tissue_type_choices[c.ref_tissue_type_ch + 1]))
            s3 == add(s2, Tok("--te", " ", Fmt2(c.seq_te_num)))
            s4 == add(s3, Tok("--t1csf", " ", Fmt2(c.ref_t1_num)))
            s5 == add(s4, Tok("--t2csf", " ", Fmt2(c.ref_t2_num)))
            s6 == add(s5, Tok("--t2bl", " ", Fmt2(c.blood_t2_num)))
            s7 == when(ref_tissue_mask(w) # NoPath, s6,
                       add(check_exists(s6, "Calibration reference tissue mask",
                                        Path(ref_tissue_mask(w))),
                           Tok("--csf", " ", Quoted(Path(ref_tissue_mask(w))))))
            s8 == when(coil_image(w) # NoPath, s7,
                       add(check_exists(s7, "Coil sensitivity reference image",
                                        Path(coil_image(w))),
                           Tok("--cref", " ", Quoted(Path(coil_image(w))))))
        IN  IF calib_mode(w) = 0 THEN s8 ELSE add(a1, Tok("--cmethod", " ", "voxel"))
    ), a0)

\* seg_calib_m0 with the saturation recovery accepted
seg_calib_m0_accept(w, a0) ==
    Call(LAMBDA a : (
        LET c == w.calibration
            a1 == add(check_exists(a, "Calibration image", c.calib_image_picker),
                      Tok("-c", " ", Quoted(c.calib_image_picker)))
        IN  IF m0_type(w) = 0 THEN add(a1, Tok("--tr", " ", Fmt2(c.seq_tr_num)))
            ELSE a1
    ), a0)

\* lines 547-558: the calibration image and the M0 type
seg_calib_m0(w, a0) ==
    Call(LAMBDA a : (
        LET c == w.calibration
            a1 == add(check_exists(a, "Calibration image", c.calib_image_picker),
                      Tok("-c", " ", Quoted(c.calib_image_picker)))
        IN  IF m0_type(w) = 0 THEN add(a1, Tok("--tr", " ", Fmt2(c.seq_tr_num)))
            ELSE raise(a1, "Saturation recovery not supported by oxford_asl")
    ), a0)

\* lines 547-575
seg_calib(w, a0) ==
    Call(LAMBDA a : (
     when(calib(w), a, seg_calib_mode(w, seg_calib_m0(w, a)))
    ), a0)

\* get_run_sequence_body with the output directory tested after the options
\* of the order
get_run_sequence_body_late_outdir(w0) ==
    Call(LAMBDA w : (
        LET a1 == seg_input(w, run_start(w))
            a3 == seg_outdir(w, seg_head(w, a1))
            a4 == seg_wp(w, a3)
            a5 == seg_fixed(w, a4)
            a6 == seg_flags(w, a5)
            a7 == seg_mask(w, a6)
            a8 == seg_casl(w, a7)
            a9 == seg_transform(w, a8)
            a10 == seg_struc(w, a9)
            a11 == seg_readout(w, a10)
            a12 == seg_distcorr(w, a11)
        IN  seg_calib(w, a12)
    ), w0)

\* get_run_sequence_body with the saturation recovery refused before any
\* auxiliary file is looked for
get_run_sequence_body_satrec_first(w0) ==
    Call(LAMBDA w : (
        LET a1 == seg_input(w, run_start(w))
            a2 == seg_outdir(w, a1)
            a3 == seg_head(w, a2)
            a4 == seg_wp(w, a3)
            a5 == seg_fixed(w, a4)
            a6 == seg_flags(w, a5)
            a6b == when(calib(w) /\ m0_type(w) = 1, a6,
                        raise(a6, "Saturation recovery not supported by oxford_asl"))
            a7 == seg_mask(w, a6b)
            a8 == seg_casl(w, a7)
            a9 == seg_transform(w, a8)
            a10 == seg_struc(w, a9)
            a11 == seg_readout(w, a10)
            a12 == seg_distcorr(w, a11)
        IN  seg_calib(w, a12)
    ), w0)

\* get_run_sequence_body with the labelling flag put before the mask
get_run_sequence_body_casl_first(w0) ==
    Call(LAMBDA w : (
        LET a1 == seg_input(w, run_start(w))
            a2 == seg_outdir(w, a1)
            a3 == seg_head(w, a2)
            a4 == seg_wp(w, a3)
            a5 == seg_fixed(w, a4)
            a6 == seg_flags(w, a5)
            a7 == seg_casl(w, a6)
            a8 == seg_mask(w, a7)
            a9 == seg_transform(w, a8)
            a10 == seg_struc(w, a9)
            a11 == seg_readout(w, a10)
            a12 == seg_distcorr(w, a11)
        IN  seg_calib(w, a12)
    ), w0)

\* the statements of get_run_sequence in the order of the code
get_run_sequence_body(w0) ==
    Call(LAMBDA w : (
        LET a1 == seg_input(w, run_start(w))
            a2 == seg_outdir(w, a1)
            a3 == seg_head(w, a2)
            a4 == seg_wp(w, a3)
            a5 == seg_fixed(w, a4)
            a6 == seg_flags(w, a5)
            a7 == seg_mask(w, a6)
            a8 == seg_casl(w, a7)
            a9 == seg_transform(w, a8)
            a10 == seg_struc(w, a9)
            a11 == seg_readout(w, a10)
            a12 == seg_distcorr(w, a11)
        IN  seg_calib(w, a12)
    ), w0)

\* get_run_sequence with the main command put first
get_run_sequence_main_first(w0) ==
    Call(LAMBDA a : (
        [raised |-> a.raised,
         run |-> IF a.raised # None THEN <<>> ELSE <<a.cmd>> \o a.run,
         nrepeats_label |-> a.nrepeats_label,
         preview |-> a.preview]
    ), get_run_sequence_body(w0))

\* get_run_sequence: the exception raised, or the list of FslCmd returned
\* (run.append(cmd) at line 577), and the two things written
get_run_sequence(w0) ==
    Call(LAMBDA a : (
        [raised |-> a.raised,
         run |-> IF a.raised # None THEN <<>> ELSE Append(a.run, a.cmd),
         nrepeats_label |-> a.nrepeats_label,
         preview |-> a.preview]
    ), get_run_sequence_body(w0))

-----------------------------------------------------------------------------
(* The update methods; each takes and gives the record w of the six objects *)

\* AslRun.update without the run_seq = None that comes before the try
AslRun_update_keep_seq(w0) ==
    Call(LAMBDA w : Call(LAMBDA r : (
        LET w1 == [w EXCEPT !.input.nrepeats_label = r.nrepeats_label,
                            !.preview = r.preview]
        IN  IF r.raised = None
            THEN [w1 EXCEPT !.run = [run_seq |-> r.run, run_btn |-> TRUE,
                                     run_label |-> "Ready to Go"]]
            ELSE [w1 EXCEPT !.run = [run_seq |-> w.run.run_seq, run_btn |-> FALSE,
                                     run_label |-> r.raised]]
    ), get_run_sequence(w)), w0)

\* AslRun.update
AslRun_update(w0) ==
    Call(LAMBDA w : Call(LAMBDA r : (
        LET w1 == [w EXCEPT !.input.nrepeats_label = r.nrepeats_label,
                            !.preview = r.preview]
        IN  IF r.raised = None
            THEN [w1 EXCEPT !.run = [run_seq |-> r.run, run_btn |-> TRUE,
                                     run_label |-> "Ready to Go"]]
            ELSE [w1 EXCEPT !.run = [run_seq |-> <<>>, run_btn |-> FALSE,
                                     run_label |-> r.raised]]
    ), get_run_sequence(w)), w0)

\* TabPage.update
TabPage_update(w) == AslRun_update(w)

\* AslInputOptions.abbrevs
abbrevs == <<"t", "r", "p">>

\* update_groups with the selections left as they are when there are no pairs
update_groups_noclamp(w0) ==
    Call(LAMBDA w : (
        LET g2 == w.input.choice2
            g1 == w.input.choice1
            choices == IF tc_pairs(w) THEN 3 ELSE 2
            g2b == IF g2 >= g1 THEN g2 + 1 ELSE g2
            order == <<abbrevs[g1 + 1], abbrevs[g2b + 1], abbrevs[(3 - g1 - g2b) + 1]>>
        IN  [w EXCEPT !.input.choice1 = g1, !.input.choice1_n = choices,
                      !.input.choice2 = g2, !.input.choice2_n = choices - 1,
                      !.preview.order = order]
    ), w0)

\* update_groups with the first group again in the third place of the order
update_groups_first_again(w0) ==
    Call(LAMBDA w : (
        LET g2a == w.input.choice2
            g1a == w.input.choice1
            g1 == IF ~tc_pairs(w) /\ g1a = 2 THEN 0 ELSE g1a
            g2 == IF ~tc_pairs(w) /\ g2a = 1 THEN 0 ELSE g2a
            choices == IF tc_pairs(w) THEN 3 ELSE 2
            g2b == IF g2 >= g1 THEN g2 + 1 ELSE g2
            order == <<abbrevs[g1 + 1], abbrevs[g2b + 1], abbrevs[g1 + 1]>>
        IN  [w EXCEPT !.input.choice1 = g1, !.input.choice1_n = choices,
                      !.input.choice2 = g2, !.input.choice2_n = choices - 1,
                      !.preview.order = order]
    ), w0)

\* AslInputOptions.update_groups and update_group_choice
update_groups(w0) ==
    Call(LAMBDA w : (
        LET g2a == w.input.choice2
            g1a == w.input.choice1
            g1 == IF ~tc_pairs(w) /\ g1a = 2 THEN 0 ELSE g1a
            g2 == IF ~tc_pairs(w) /\ g2a = 1 THEN 0 ELSE g2a
            choices == IF tc_pairs(w) THEN 3 ELSE 2
            g2b == IF g2 >= g1 THEN g2 + 1 ELSE g2
            order == <<abbrevs[g1 + 1], abbrevs[g2b + 1], abbrevs[(3 - g1 - g2b) + 1]>>
        IN  [w EXCEPT !.input.choice1 = g1, !.input.choice1_n = choices,
                      !.input.choice2 = g2, !.input.choice2_n = choices - 1,
                      !.preview.order = order]
    ), w0)

\* AslInputOptions.update
AslInputOptions_update(w0) ==
    Call(LAMBDA w : (
        LET i == w.input
            use_fsl_anat == i.fsl_anat_cb
            use_struc_image == i.struc_image_cb
            e1 == Enable(i.enabled, "time_per_slice_num", i.readout_ch # 0)
            e2 == Enable(e1, "multiband_cb", i.readout_ch # 0)
            e3 == Enable(e2, "slices_per_band_spin", i.multiband_cb /\ i.readout_ch # 0)
            e4 == Enable(e3, "fsl_anat_picker", use_fsl_anat)
            e5 == Enable(e4, "struc_image_cb", ~use_fsl_anat)
            e6 == Enable(e5, "struc_image_ch", use_struc_image /\ ~use_fsl_anat)
            e7 == Enable(e6, "struc_image_picker", use_struc_image /\ ~use_fsl_anat)
            e8 == Enable(e7, "struc_image_brain_picker",
                         use_struc_image /\ ~use_fsl_anat /\ i.struc_image_ch = 0)
            e9 == Enable(e8, "bolus_dur_num", i.bolus_dur_ch = 0)
            e10 == Enable(e9, "bolus_dur_list", i.bolus_dur_ch = 1)
            e11 == Enable(e10, "tc_ch", i.tc_cb)
            w1 == [w EXCEPT !.input.ti_list = NumberList_set_size(@, i.ntis_int),
                            !.input.bolus_dur_list = NumberList_set_size(@, i.ntis_int),
                            !.input.enabled = e11]
        IN  TabPage_update(update_groups(w1))
    ), w0)

\* AslAnalysis.update
AslAnalysis_update(w0) ==
    Call(LAMBDA w : (
        LET a == w.analysis
            e1 == Enable(a.enabled, "transform_ch", a.transform_cb)
            e2 == Enable(e1, "transform_picker", a.transform_cb /\ a.transform_ch # 2)
            e3 == Enable(e2, "mask_picker", a.mask_cb)
            e4 == Enable(e3, "t1_num", ~a.wp_cb)
            e5 == Enable(e4, "bat_num", ~a.wp_cb)
        IN  TabPage_update([w EXCEPT !.analysis.enabled = e5])
    ), w0)

\* AslDistCorr.update
AslDistCorr_update(w0) ==
    Call(LAMBDA w : (
        LET d == w.distcorr
            fmap == d.distcorr_cb /\ d.distcorr_ch = 0
            cal == d.distcorr_cb /\ d.distcorr_ch = 1
            e1 == Enable(d.enabled, "distcorr_ch", d.distcorr_cb)
            e2 == Enable(e1, "pedir_ch", d.distcorr_cb)
            e3 == Enable(e2, "echosp_num", d.distcorr_cb)
            e4 == Enable(e3, "fmap_picker", fmap)
            e5 == Enable(e4, "fmap_mag_picker", fmap)
            e6 == Enable(e5, "fmap_mag_be_cb", fmap)
            e7 == Enable(e6, "cblip_cb", cal)
        IN  TabPage_update([w EXCEPT !.distcorr.enabled = e7])
    ), w0)

\* AslCalibration.update that leaves the calibration mode as it is
AslCalibration_update_keep_mode(w0) ==
    Call(LAMBDA w : (
        LET c == w.calibration
            enable == c.calib_cb
            mode == c.calib_mode_ch
            e1 == Enable(c.enabled, "m0_type_ch", enable)
            e2 == Enable(e1, "seq_tr_num", enable /\ c.m0_type_ch = 0)
            e3 == Enable(e2, "calib_image_picker", enable)
            e4 == Enable(e3, "calib_gain_num", enable)
            e5 == Enable(e4, "calib_mode_ch", enable /\ ~wp(w))
            e6 == Enable(e5, "ref_tissue_type_ch", enable /\ mode = 0)
            e7 == Enable(e6, "ref_tissue_mask_cb", enable /\ mode = 0)
            e8 == Enable(e7, "ref_tissue_mask_picker",
                         enable /\ c.ref_tissue_mask_cb /\ mode = 0)
            e9 == Enable(e8, "coil_image_cb", enable /\ mode = 0)
            e10 == Enable(e9, "coil_image_picker", enable /\ mode = 0 /\ c.coil_image_cb)
            e11 == Enable(e10, "seq_te_num", enable /\ mode = 0)
            e12 == Enable(e11, "blood_t2_num", enable /\ mode = 0)
            e13 == Enable(e12, "ref_t1_num", enable /\ mode = 0)
            e14 == Enable(e13, "ref_t2_num", enable /\ mode = 0)
        IN  TabPage_update([w EXCEPT !.calibration.calib_mode_ch = mode,
                                     !.calibration.enabled = e14])
    ), w0)

\* AslCalibration.update
AslCalibration_update(w0) ==
    Call(LAMBDA w : (
        LET c == w.calibration
            enable == c.calib_cb
            mode == IF wp(w) THEN 1 ELSE c.calib_mode_ch
            e1 == Enable(c.enabled, "m0_type_ch", enable)
            e2 == Enable(e1, "seq_tr_num", enable /\ c.m0_type_ch = 0)
            e3 == Enable(e2, "calib_image_picker", enable)
            e4 == Enable(e3, "calib_gain_num", enable)
            e5 == Enable(e4, "calib_mode_ch", enable /\ ~wp(w))
            e6 == Enable(e5, "ref_tissue_type_ch", enable /\ mode = 0)
            e7 == Enable(e6, "ref_tissue_mask_cb", enable /\ mode = 0)
            e8 == Enable(e7, "ref_tissue_mask_picker",
                         enable /\ c.ref_tissue_mask_cb /\ mode = 0)
            e9 == Enable(e8, "coil_image_cb", enable /\ mode = 0)
            e10 == Enable(e9, "coil_image_picker", enable /\ mode = 0 /\ c.coil_image_cb)
            e11 == Enable(e10, "seq_te_num", enable /\ mode = 0)
            e12 == Enable(e11, "blood_t2_num", enable /\ mode = 0)
            e13 == Enable(e12, "ref_t1_num", enable /\ mode = 0)
            e14 == Enable(e13, "ref_t2_num", enable /\ mode = 0)
        IN  TabPage_update([w EXCEPT !.calibration.calib_mode_ch = mode,
                                     !.calibration.enabled = e14])
    ), w0)

\* AslAnalysis.labelling_changed
AslAnalysis_labelling_changed(w0, pasl) ==
    Call(LAMBDA w : (
        IF pasl THEN [w EXCEPT !.analysis.bat_num = 70, !.analysis.ie_num = 98]
        ELSE [w EXCEPT !.analysis.bat_num = 130, !.analysis.ie_num = 85]
    ), w0)

\* AslAnalysis.fsl_anat_changed that keeps the selection when FSL_ANAT goes off
AslAnalysis_fsl_anat_changed_keep_sel(w0, enabled) ==
    Call(LAMBDA w : (
        LET sel == w.analysis.transform_ch
            e == Enable(w.analysis.enabled, "transform_ch", transform(w))
        IN  IF enabled
            THEN [w EXCEPT !.analysis.transform_ch_n = 3, !.analysis.transform_ch = 2,
                           !.analysis.enabled = e]
            ELSE [w EXCEPT !.analysis.transform_ch_n = 2,
                           !.analysis.transform_ch = sel,
                           !.analysis.enabled = e]
    ), w0)

\* AslAnalysis.fsl_anat_changed
AslAnalysis_fsl_anat_changed(w0, enabled) ==
    Call(LAMBDA w : (
        LET sel == w.analysis.transform_ch
            e == Enable(w.analysis.enabled, "transform_ch", transform(w))
        IN  IF enabled
            THEN [w EXCEPT !.analysis.transform_ch_n = 3, !.analysis.transform_ch = 2,
                           !.analysis.enabled = e]
            ELSE [w EXCEPT !.analysis.transform_ch_n = 2,
                           !.analysis.transform_ch = IF sel = 2 THEN 0 ELSE sel,
                           !.analysis.enabled = e]
    ), w0)

\* AslDistCorr.calib_changed
AslDistCorr_calib_changed(w0, enabled) ==
    Call(LAMBDA w : (
        LET w1 == [w EXCEPT !.distcorr.distcorr_ch_n = IF enabled THEN 2 ELSE 1,
                            !.distcorr.distcorr_ch = IF enabled THEN 1 ELSE 0,
                            !.distcorr.enabled = Enable(@, "distcorr_ch", FALSE)]
        IN  AslDistCorr_update(w1)
    ), w0)

\* AslCalibration.wp_changed
AslCalibration_wp_changed(w) == AslCalibration_update(w)

-----------------------------------------------------------------------------
(* The state *)

World ==
    [input |-> input, analysis |-> analysis, distcorr |-> distcorr,
     calibration |-> calibration, preview |-> preview, run |-> run]

\* the places where wx.Yield() is called, after AppendText of the command
\* text (line 73), of a line (line 79) and of the return code (line 81)
YieldPcs == {"yield_cmd", "yield_line", "yield_return"}

\* what a wx.Yield() called from inside a wx.Yield() does, which the wx build
\* decides: it delivers the events, it returns without delivering any, or it
\* fails the assertion against recursive calls and raises wx.PyAssertionError
WxModes == {"deliver", "false", "assert"}

\* the event loop delivers an event: no handler is running, or the one that
\* is has called wx.Yield(), and not from inside another wx.Yield() unless
\* the build delivers events there
Delivered ==
    \/ frame.pc = "idle"
    \/ frame.pc \in YieldPcs /\ (frame.outer = <<>> \/ frame.wx = "deliver")

\* wx.Yield() returns to FslCmd.write_output
Returns == frame.outer = <<>> \/ frame.wx \in {"deliver", "false"}

Becomes(w0) ==
    \E w \in {w0} :
        /\ Delivered
        /\ UNCHANGED <<call, ret, output_text, frame, proc>>
        /\ input' = w.input
        /\ analysis' = w.analysis
        /\ distcorr' = w.distcorr
        /\ calibration' = w.calibration
        /\ preview' = w.preview
        /\ run' = w.run

\* AslGui.__init__: the objects are built and every tab is updated in turn
AslGui_init ==
    LET w0 == [input |-> AslInputOptions_init, analysis |-> AslAnalysis_init,
               distcorr |-> AslDistCorr_init, calibration |-> AslCalibration_init,
               preview |-> AslDataPreview_init, run |-> AslRun_init]
    IN  AslCalibration_update(AslDistCorr_update(AslAnalysis_update(
            AslInputOptions_update(w0))))

\* the largest number of lines a child process writes to its output
MaxLines == 2

\* the exit statuses of a child process
ExitCodes == {0, 1}

\* what p.poll() returns while the child runs (None in the code)
StillRunning == -1

\* no child process yet: alive says the child has not exited, open that it
\* has not closed its output
NoProc ==
    [alive |-> FALSE, open |-> FALSE, returncode |-> StillRunning, pipe |-> <<>>,
     written |-> 0]

\* the bound on the clicks on Run that wx.Yield() delivers during one run
\* (each enters dorun again)
MaxClicks == 1

\* dorun is not running: pc is the place in the code, seq the list the for
\* loop goes through, i the place in it, retcode and line the locals of
\* FslCmd.run; ran and rets are the commands this call of dorun has entered
\* and the values FslCmd.run has returned to it; started and returned are the
\* same for every call of dorun since the click that found none under way,
\* and clicks the number of the clicks since that one;
\* outer holds the calls of dorun that wait in wx.Yield(), each with its child;
\* left holds, for each call of dorun that a click during a run started and
\* that has ended, the commands it has run;
\* wx is what the wx build in use does in a wx.Yield() called from a handler
\* that a wx.Yield() delivered, unknown until the first such call
NoFrame ==
    [pc |-> "idle", seq |-> <<>>, i |-> 0, retcode |-> StillRunning, line |-> "",
     ran |-> <<>>, rets |-> <<>>, started |-> <<>>, returned |-> <<>>, clicks |-> 0,
     outer |-> <<>>, left |-> <<>>, wx |-> "unknown"]

NotRunning == output_text = <<>> /\ frame = NoFrame /\ proc = NoProc

NoCall ==
    [method |-> "none", order |-> <<>>, n_tis |-> 0, n_repeats |-> 0,
     tc_pairs |-> FALSE, tagfirst |-> FALSE]

NoRet == [raised |-> None, opts |-> <<>>, diff_opt |-> "", seq |-> <<>>, N |-> 0]

Init ==
    /\ \E w \in {AslGui_init} :
           /\ input = w.input
           /\ analysis = w.analysis
           /\ distcorr = w.distcorr
           /\ calibration = w.calibration
           /\ preview = w.preview
           /\ run = w.run
    /\ call = NoCall
    /\ ret = NoRet
    /\ NotRunning

-----------------------------------------------------------------------------
(* The event handlers of the "Input Data" tab.  A widget that is disabled  *)
(* takes no event.                                                         *)

\* EVT_FILEPICKER_CHANGED of data_picker: AslInputOptions.update
data_picker_changed(p) ==
    Becomes(AslInputOptions_update([World EXCEPT !.input.data_picker = p]))

\* EVT_SPINCTRL of ntis_int: AslInputOptions.update
ntis_int_changed(n) ==
    Becomes(AslInputOptions_update([World EXCEPT !.input.ntis_int = n]))

\* EVT_CHOICE of choice1: AslInputOptions.update
choice1_changed(k) ==
    /\ k < input.choice1_n
    /\ Becomes(AslInputOptions_update([World EXCEPT !.input.choice1 = k]))

\* EVT_CHOICE of choice2: AslInputOptions.update
choice2_changed(k) ==
    /\ k < input.choice2_n
    /\ Becomes(AslInputOptions_update([World EXCEPT !.input.choice2 = k]))

\* EVT_CHECKBOX of tc_ch.checkbox: AslInputOptions.update
tc_cb_changed ==
    Becomes(AslInputOptions_update([World EXCEPT !.input.tc_cb = ~@]))

\* EVT_CHOICE of tc_ch: AslInputOptions.update
tc_ch_changed(k) ==
    /\ "tc_ch" \in input.enabled
    /\ Becomes(AslInputOptions_update([World EXCEPT !.input.tc_ch = k]))

\* EVT_CHOICE of labelling_ch: AslInputOptions.labelling_changed
labelling_changed(k) ==
    LET w1 == [World EXCEPT !.input.labelling_ch = k,
                            !.input.bolus_dur_num = IF k = 0 THEN 70 ELSE 180]
    IN  Becomes(AslInputOptions_update(AslAnalysis_labelling_changed(w1, k = 0)))

\* EVT_CHOICE of bolus_dur_ch: AslInputOptions.update
bolus_dur_ch_changed(k) ==
    Becomes(AslInputOptions_update([World EXCEPT !.input.bolus_dur_ch = k]))

\* AslInputOptions.bolus_dur_changed: while the bolus duration is constant,
\* every cell of bolus_dur_list takes the value the spin control holds
AslInputOptions_bolus_dur_changed(w0) ==
    Call(LAMBDA w : (
        IF bolus_dur_type(w) = 0
        THEN [w EXCEPT !.input.bolus_dur_list = [c \in 1..Len(@) |-> bolus_dur(w).value[1]]]
        ELSE w
    ), w0)

\* NumberChooser.spin_changed on bolus_dur_num, whose handler is None: the
\* range of the slider follows a value outside it and goes back to the one
\* it started with for a value inside that.  The spin control takes no value
\* under 0, so min stays 0, and self.max is all that changes.
NumberChooser_spin_changed(max, val) ==
    IF val > max THEN val
    ELSE IF val < bolus_dur_num_orig_max THEN bolus_dur_num_orig_max
    ELSE max

\* EVT_SPINCTRLDOUBLE of bolus_dur_num.spin, which holds the new value v:
\* AslInputOptions.bolus_dur_changed, then NumberChooser.spin_changed
bolus_dur_changed(v) ==
    /\ "bolus_dur_num" \in input.enabled
    /\ \E w \in {AslInputOptions_bolus_dur_changed(
                      [World EXCEPT !.input.bolus_dur_num = v])} :
           Becomes([w EXCEPT !.input.bolus_dur_num_max = NumberChooser_spin_changed(@, v)])

\* the value NumberChooser.slider_changed gives the spin control for the
\* place pos of the slider of bolus_dur_num: self.min + (self.max -
\* self.min) * pos / 100 with self.min 0, in hundredths
slider_value(max, pos) == (max * pos) \div 100

\* EVT_SLIDER of bolus_dur_num.slider at the place pos: the handler bound
\* last runs first, so AslInputOptions.bolus_dur_changed copies the value the
\* spin control still holds, and then NumberChooser.slider_changed, whose
\* handler is None, sets the spin control.  The places taken are those whose
\* value is a whole number of hundredths.
bolus_dur_changed_slider(pos) ==
    /\ "bolus_dur_num" \in input.enabled
    /\ (input.bolus_dur_num_max * pos) % 100 = 0
    /\ \E w \in {AslInputOptions_bolus_dur_changed(World)} :
           Becomes([w EXCEPT !.input.bolus_dur_num =
                                 slider_value(input.bolus_dur_num_max, pos)])

\* EVT_GRID_CELL_CHANGED of ti_list: AslInputOptions.update
ti_list_changed(c, v) ==
    /\ c \in 1..Len(input.ti_list)
    /\ Becomes(AslInputOptions_update([World EXCEPT !.input.ti_list[c] = v]))

\* EVT_GRID_CELL_CHANGED of bolus_dur_list: AslInputOptions.update
bolus_dur_list_changed(c, v) ==
    /\ "bolus_dur_list" \in input.enabled
    /\ c \in 1..Len(input.bolus_dur_list)
    /\ Becomes(AslInputOptions_update([World EXCEPT !.input.bolus_dur_list[c] = v]))

\* EVT_CHOICE of readout_ch: AslInputOptions.update
readout_ch_changed(k) ==
    Becomes(AslInputOptions_update([World EXCEPT !.input.readout_ch = k]))

\* EVT_SPINCTRLDOUBLE of time_per_slice_num with a value inside the range it
\* was built with: NumberChooser.spin_changed, whose handler is None
time_per_slice_changed(v) ==
    /\ "time_per_slice_num" \in input.enabled
    /\ Becomes([World EXCEPT !.input.time_per_slice_num = v])

\* EVT_CHECKBOX of multiband_cb: AslInputOptions.update
multiband_cb_changed ==
    /\ "multiband_cb" \in input.enabled
    /\ Becomes(AslInputOptions_update([World EXCEPT !.input.multiband_cb = ~@]))

\* a new value of slices_per_band_spin, which has no handler
slices_per_band_changed(n) ==
    /\ "slices_per_band_spin" \in input.enabled
    /\ Becomes([World EXCEPT !.input.slices_per_band_spin = n])

\* AslInputOptions.fsl_anat_changed
AslInputOptions_fsl_anat_changed(w0) ==
    Call(LAMBDA w : (
        AslInputOptions_update(AslAnalysis_fsl_anat_changed(w, w.input.fsl_anat_cb))
    ), w0)

\* EVT_CHECKBOX of fsl_anat_picker.checkbox: AslInputOptions.fsl_anat_changed
fsl_anat_cb_changed ==
    Becomes(AslInputOptions_fsl_anat_changed([World EXCEPT !.input.fsl_anat_cb = ~@]))

\* EVT_DIRPICKER_CHANGED of fsl_anat_picker: AslInputOptions.fsl_anat_changed
fsl_anat_picker_changed(p) ==
    /\ "fsl_anat_picker" \in input.enabled
    /\ Becomes(AslInputOptions_fsl_anat_changed([World EXCEPT !.input.fsl_anat_picker = p]))

\* EVT_CHECKBOX of struc_image_picker.checkbox: AslInputOptions.update
struc_image_cb_changed ==
    /\ "struc_image_cb" \in input.enabled
    /\ Becomes(AslInputOptions_update([World EXCEPT !.input.struc_image_cb = ~@]))

\* EVT_FILEPICKER_CHANGED of struc_image_picker: AslInputOptions.update
struc_image_picker_changed(p) ==
    /\ "struc_image_picker" \in input.enabled
    /\ Becomes(AslInputOptions_update([World EXCEPT !.input.struc_image_picker = p]))

\* EVT_CHOICE of struc_image_ch: AslInputOptions.update
struc_image_ch_changed(k) ==
    /\ "struc_image_ch" \in input.enabled
    /\ Becomes(AslInputOptions_update([World EXCEPT !.input.struc_image_ch = k]))

\* EVT_FILEPICKER_CHANGED of struc_image_brain_picker: AslInputOptions.update
struc_image_brain_picker_changed(p) ==
    /\ "struc_image_brain_picker" \in input.enabled
    /\ Becomes(AslInputOptions_update([World EXCEPT !.input.struc_image_brain_picker = p]))

-----------------------------------------------------------------------------
(* The event handlers of the "Analysis" tab *)

\* EVT_DIRPICKER_CHANGED of outdir_picker: AslAnalysis.update
outdir_picker_changed(p) ==
    Becomes(AslAnalysis_update([World EXCEPT !.analysis.outdir_picker = p]))

\* EVT_CHECKBOX of transform_cb, mask_picker.checkbox, spatial_cb, infer_t1_cb,
\* macro_cb, fixbolus_cb, pv_cb or mc_cb: AslAnalysis.update
analysis_cb_changed(name) ==
    Becomes(AslAnalysis_update([World EXCEPT !.analysis[name] = ~@]))

\* EVT_CHOICE of transform_ch: AslAnalysis.update
transform_ch_changed(k) ==
    /\ "transform_ch" \in analysis.enabled
    /\ k < analysis.transform_ch_n
    /\ Becomes(AslAnalysis_update([World EXCEPT !.analysis.transform_ch = k]))

\* EVT_FILEPICKER_CHANGED of transform_picker: AslAnalysis.update
transform_picker_changed(p) ==
    /\ "transform_picker" \in analysis.enabled
    /\ Becomes(AslAnalysis_update([World EXCEPT !.analysis.transform_picker = p]))

\* EVT_FILEPICKER_CHANGED of mask_picker: AslAnalysis.update
mask_picker_changed(p) ==
    /\ "mask_picker" \in analysis.enabled
    /\ Becomes(AslAnalysis_update([World EXCEPT !.analysis.mask_picker = p]))

\* AslAnalysis.wp_changed
AslAnalysis_wp_changed(w0) ==
    Call(LAMBDA w : (
        LET w1 == IF wp(w)
                  THEN [w EXCEPT !.analysis.t1_num = 165, !.analysis.bat_num = 0]
                  ELSE [w EXCEPT !.analysis.t1_num = 130, !.analysis.bat_num = 130]
        IN  AslAnalysis_update(AslCalibration_update(w1))
    ), w0)

\* EVT_CHECKBOX of wp_cb: AslAnalysis.wp_changed
wp_cb_changed ==
    Becomes(AslAnalysis_wp_changed([World EXCEPT !.analysis.wp_cb = ~@]))

\* a new value of bat_num, t1_num, t1b_num or ie_num: NumberChooser.spin_changed
\* or slider_changed, whose handler is AslAnalysis.update
analysis_num_changed(name, v) ==
    /\ name \in {"bat_num", "t1_num"} => name \in analysis.enabled
    /\ Becomes(AslAnalysis_update([World EXCEPT !.analysis[name] = v]))

-----------------------------------------------------------------------------
(* The event handlers of the "Distortion Correction" tab *)

\* EVT_CHECKBOX of distcorr_cb, fmap_mag_be_cb or cblip_cb: AslDistCorr.update
distcorr_cb_changed(name) ==
    /\ name # "distcorr_cb" => name \in distcorr.enabled
    /\ Becomes(AslDistCorr_update([World EXCEPT !.distcorr[name] = ~@]))

\* EVT_CHOICE of distcorr_ch: AslDistCorr.update
distcorr_ch_changed(k) ==
    /\ "distcorr_ch" \in distcorr.enabled
    /\ k < distcorr.distcorr_ch_n
    /\ Becomes(AslDistCorr_update([World EXCEPT !.distcorr.distcorr_ch = k]))

\* EVT_FILEPICKER_CHANGED of fmap_picker or fmap_mag_picker: AslDistCorr.update
distcorr_picker_changed(name, p) ==
    /\ name \in distcorr.enabled
    /\ Becomes(AslDistCorr_update([World EXCEPT !.distcorr[name] = p]))

\* EVT_CHOICE of pedir_ch or a new value of echosp_num: AslDistCorr.update
distcorr_value_changed(name, v) ==
    /\ name \in distcorr.enabled
    /\ Becomes(AslDistCorr_update([World EXCEPT !.distcorr[name] = v]))

-----------------------------------------------------------------------------
(* The event handlers of the "Calibration" tab *)

\* AslCalibration.calib_changed
AslCalibration_calib_changed(w0) ==
    Call(LAMBDA w : (
        AslCalibration_update(AslDistCorr_calib_changed(w, calib(w)))
    ), w0)

\* EVT_CHECKBOX of calib_cb: AslCalibration.calib_changed
calib_cb_changed ==
    Becomes(AslCalibration_calib_changed([World EXCEPT !.calibration.calib_cb = ~@]))

\* EVT_CHECKBOX of ref_tissue_mask_picker.checkbox or coil_image_picker.checkbox:
\* AslCalibration.update
calibration_cb_changed(name) ==
    /\ name \in calibration.enabled
    /\ Becomes(AslCalibration_update([World EXCEPT !.calibration[name] = ~@]))

\* EVT_FILEPICKER_CHANGED of calib_image_picker, ref_tissue_mask_picker or
\* coil_image_picker: AslCalibration.update
calibration_picker_changed(name, p) ==
    /\ name \in calibration.enabled
    /\ Becomes(AslCalibration_update([World EXCEPT !.calibration[name] = p]))

\* EVT_CHOICE of m0_type_ch or calib_mode_ch, or a new value of seq_tr_num,
\* calib_gain_num, seq_te_num, blood_t2_num, ref_t1_num or ref_t2_num:
\* AslCalibration.update
calibration_value_changed(name, v) ==
    /\ name \in calibration.enabled
    /\ Becomes(AslCalibration_update([World EXCEPT !.calibration[name] = v]))

\* AslCalibration.ref_tissue_type_changed
AslCalibration_ref_tissue_type_changed(w0) ==
    Call(LAMBDA w : (
        LET t == w.calibration.ref_tissue_type_ch
        IN  AslCalibration_update(
                IF t = 0 THEN [w EXCEPT !.calibration.ref_t1_num = 430,
                                        !.calibration.ref_t2_num = 75000]
                ELSE IF t = 1 THEN [w EXCEPT !.calibration.ref_t1_num = 100,
                                             !.calibration.ref_t2_num = 5000]
                ELSE IF t = 2 THEN [w EXCEPT !.calibration.ref_t1_num = 130,
                                             !.calibration.ref_t2_num = 10000]
                ELSE w)
    ), w0)

\* EVT_CHOICE of ref_tissue_type_ch: AslCalibration.ref_tissue_type_changed
ref_tissue_type_changed(k) ==
    /\ "ref_tissue_type_ch" \in calibration.enabled
    /\ Becomes(AslCalibration_ref_tissue_type_changed(
                   [World EXCEPT !.calibration.ref_tissue_type_ch = k]))

-----------------------------------------------------------------------------
(* Direct calls of the two pure computations, with arguments of any value *)

\* the six orders of the three letters
Orders ==
    {o \in [1..3 -> {"t", "r", "p"}] : {o[1], o[2], o[3]} = {"t", "r", "p"}}

\* get_data_order_options with data_order() = (order, tagfirst) and tc_pairs() = pairs
call_get_data_order_options(order, tagfirst, pairs) ==
    LET r == get_data_order_options(order, tagfirst, pairs)
    IN  /\ call' = [method |-> "get_data_order_options", order |-> order,
                    n_tis |-> 0, n_repeats |-> 0, tc_pairs |-> pairs,
                    tagfirst |-> tagfirst]
        /\ ret' = [NoRet EXCEPT !.raised = r.raised, !.opts = r.opts,
                                !.diff_opt = r.diff_opt]
        /\ UNCHANGED <<input, analysis, distcorr, calibration, preview, run>>
    /\ UNCHANGED <<output_text, frame, proc>>

\* on_paint of AslDataPreview(parent, n_tis, n_repeats, pairs, order, tagfirst)
call_on_paint(order, n_tis, n_repeats, pairs, tagfirst) ==
    /\ call' = [method |-> "on_paint", order |-> order, n_tis |-> n_tis,
                n_repeats |-> n_repeats, tc_pairs |-> pairs, tagfirst |-> tagfirst]
    /\ ret' = [NoRet EXCEPT !.seq = on_paint_seq(order, n_tis, n_repeats, pairs, tagfirst),
                            !.N = on_paint_N(n_tis, n_repeats, pairs)]
    /\ UNCHANGED <<input, analysis, distcorr, calibration, preview, run>>
    /\ UNCHANGED <<output_text, frame, proc>>

NextCodec ==
    \/ \E o \in Orders, tagfirst \in BOOLEAN, pairs \in BOOLEAN :
           call_get_data_order_options(o, tagfirst, pairs)
    \/ \E o \in Orders, n_tis \in 1..MaxTis, n_repeats \in 1..MaxRepeats,
          tagfirst \in BOOLEAN, pairs \in BOOLEAN :
           call_on_paint(o, n_tis, n_repeats, pairs, tagfirst)

SpecCodec == Init /\ [][NextCodec]_vars

-----------------------------------------------------------------------------
(* The paths the user picks *)

\* the input images offered: one that is missing, a 3D image, and three 4D images
DataChoices ==
    {"/data/gone.nii", "/data/struct3d.nii", "/data/asl10.nii", "/data/asl12.nii",
     "/data/asl24.nii"}

\* the output directories offered (the picker starts empty)
OutdirChoices == {"/out"}

-----------------------------------------------------------------------------
(* A session on the data order: the input image, the number of PLDs, the   *)
(* grouping, the pairs, the output directory and the FSL_ANAT checkbox     *)

NextOrder ==
    \/ \E p \in DataChoices : data_picker_changed(p)
    \/ \E n \in 1..MaxTis : ntis_int_changed(n)
    \/ \E k \in 0..2 : choice1_changed(k)
    \/ \E k \in 0..2 : choice2_changed(k)
    \/ tc_cb_changed
    \/ \E k \in 0..1 : tc_ch_changed(k)
    \/ \E p \in OutdirChoices : outdir_picker_changed(p)
    \/ fsl_anat_cb_changed

SpecOrder == Init /\ [][NextOrder]_vars

\* the auxiliary files offered (every such picker starts empty)
AuxChoices == {"/data/aux.nii"}

\* the values offered for the constant bolus duration, the time per slice
\* and the slices per band
BolusChoices == {100, 180}
\* the values typed into its spin control: 3.0 s is outside the range of the
\* slider, which follows it
SpinChoices == BolusChoices \cup {300}
\* the places of the slider offered for it: 1.0 s and 1.8 s while the range
\* ends at 2.5 s
SliderChoices == {40, 72}
TimePerSliceChoices == {1000, 2000}
SlicesPerBandChoices == {5, 6}

\* what the user types in a cell of a list: the grid takes any text, a
\* negative number and one that is no number too
CellChoices == BolusChoices \cup {-50, NonNumeric}

-----------------------------------------------------------------------------
(* A session on the calibration and white paper options *)

NextCalib ==
    \/ data_picker_changed("/data/asl12.nii")
    \/ \E p \in OutdirChoices : outdir_picker_changed(p)
    \/ fsl_anat_cb_changed
    \/ calib_cb_changed
    \/ \E k \in 0..1 : calibration_value_changed("m0_type_ch", k)
    \/ \E k \in 0..1 : calibration_value_changed("calib_mode_ch", k)
    \/ \E p \in AuxChoices : calibration_picker_changed("calib_image_picker", p)
    \/ wp_cb_changed
    \/ analysis_cb_changed("mask_cb")
    \/ \E p \in AuxChoices : mask_picker_changed(p)
    \/ \E k \in 0..1 : labelling_changed(k)
    \/ \E v \in {NonNumeric, NumberList_default} : ti_list_changed(1, v)

SpecCalib == Init /\ [][NextCalib]_vars

-----------------------------------------------------------------------------
(* A session on the acquisition parameters *)

NextAcq ==
    \/ data_picker_changed("/data/asl12.nii")
    \/ \E p \in OutdirChoices : outdir_picker_changed(p)
    \/ fsl_anat_cb_changed
    \/ \E k \in 0..1 : labelling_changed(k)
    \/ \E k \in 0..1 : bolus_dur_ch_changed(k)
    \/ \E v \in SpinChoices : bolus_dur_changed(v)
    \/ \E pos \in SliderChoices : bolus_dur_changed_slider(pos)
    \/ \E k \in 0..1 : readout_ch_changed(k)
    \/ \E v \in TimePerSliceChoices : time_per_slice_changed(v)
    \/ multiband_cb_changed
    \/ \E n \in SlicesPerBandChoices : slices_per_band_changed(n)

SpecAcq == Init /\ [][NextAcq]_vars

-----------------------------------------------------------------------------
(* A session on the auxiliary files, from the state in which the user has  *)
(* picked a 4D input image and an output directory                         *)

AslGui_ready ==
    AslAnalysis_update(
        [AslInputOptions_update([AslGui_init EXCEPT !.input.data_picker = "/data/asl12.nii"])
            EXCEPT !.analysis.outdir_picker = "/out"])

InitReady ==
    /\ \E w \in {AslGui_ready} :
           /\ input = w.input
           /\ analysis = w.analysis
           /\ distcorr = w.distcorr
           /\ calibration = w.calibration
           /\ preview = w.preview
           /\ run = w.run
    /\ call = NoCall
    /\ ret = NoRet
    /\ NotRunning

NextAux ==
    \/ fsl_anat_cb_changed
    \/ analysis_cb_changed("mask_cb")
    \/ \E p \in AuxChoices : mask_picker_changed(p)
    \/ analysis_cb_changed("transform_cb")
    \/ \E k \in 0..1 : transform_ch_changed(k)
    \/ \E p \in AuxChoices : transform_picker_changed(p)
    \/ struc_image_cb_changed
    \/ \E p \in AuxChoices : struc_image_picker_changed(p)
    \/ distcorr_cb_changed("distcorr_cb")
    \/ \E k \in 0..1 : distcorr_ch_changed(k)
    \/ \E p \in AuxChoices : distcorr_picker_changed("fmap_picker", p)
    \/ \E p \in AuxChoices : distcorr_picker_changed("fmap_mag_picker", p)
    \/ calib_cb_changed
    \/ \E k \in 0..1 : calibration_value_changed("m0_type_ch", k)
    \/ \E p \in AuxChoices : calibration_picker_changed("calib_image_picker", p)

SpecAux == InitReady /\ [][NextAux]_vars

-----------------------------------------------------------------------------
(* A session on the structural data and the registration *)

\* the FSL_ANAT directories offered (the picker starts empty)
FslAnatChoices == {"/data/anat.anat"}

NextStruc ==
    \/ data_picker_changed("/data/asl12.nii")
    \/ \E p \in OutdirChoices : outdir_picker_changed(p)
    \/ fsl_anat_cb_changed
    \/ \E p \in FslAnatChoices : fsl_anat_picker_changed(p)
    \/ struc_image_cb_changed
    \/ \E p \in AuxChoices : struc_image_picker_changed(p)
    \/ \E k \in 0..1 : struc_image_ch_changed(k)
    \/ \E p \in AuxChoices : struc_image_brain_picker_changed(p)
    \/ analysis_cb_changed("transform_cb")
    \/ \E k \in 0..2 : transform_ch_changed(k)
    \/ \E p \in AuxChoices : transform_picker_changed(p)

SpecStruc == Init /\ [][NextStruc]_vars

-----------------------------------------------------------------------------
(* A session on the distortion correction *)

NextDist ==
    \/ data_picker_changed("/data/asl12.nii")
    \/ \E p \in OutdirChoices : outdir_picker_changed(p)
    \/ fsl_anat_cb_changed
    \/ distcorr_cb_changed("distcorr_cb")
    \/ \E k \in 0..1 : distcorr_ch_changed(k)
    \/ \E p \in AuxChoices : distcorr_picker_changed("fmap_picker", p)
    \/ \E p \in AuxChoices : distcorr_picker_changed("fmap_mag_picker", p)
    \/ distcorr_cb_changed("fmap_mag_be_cb")
    \/ distcorr_cb_changed("cblip_cb")
    \/ \E k \in 0..1 : distcorr_value_changed("pedir_ch", k)
    \/ calib_cb_changed
    \/ \E p \in AuxChoices : calibration_picker_changed("calib_image_picker", p)

SpecDist == Init /\ [][NextDist]_vars

-----------------------------------------------------------------------------
(***************************************************************************)
(* AslRun.dorun and FslCmd.run, with the child process                     *)
(*                                                                         *)
(* FslCmd.run is taken statement by statement.  The child process runs at  *)
(* the same time: it writes lines to the pipe and exits.                   *)
(* p.stdout.readline() waits for a line or for the end of the file, which  *)
(* comes when the child has exited and the pipe is empty.  The programs    *)
(* are found when Popen looks for them.  write_output calls wx.Yield()     *)
(* after every AppendText, and there the event loop delivers the events    *)
(* that wait: the handlers of the widgets, and dorun itself, since the Run *)
(* button stays enabled during a run.  A call of dorun entered there runs  *)
(* its whole list before the call that waits in wx.Yield() goes on.        *)
(***************************************************************************)

\* the j-th line the child of the i-th command writes
Line(i, j) == "out " \o ToString(i) \o "." \o ToString(j) \o "\n"

\* out_widget.AppendText(line)
write_output(text, line) == IF line = "" THEN text ELSE Append(text, line)

\* lines 367-369: the return of cmd.run is dropped and the for loop goes on
dorun_next(f, retcode) ==
    [f EXCEPT !.i = @ + 1, !.returned = Append(@, retcode), !.rets = Append(@, retcode),
              !.pc = IF f.i + 1 > Len(f.seq) THEN "idle" ELSE "call"]

\* a call of dorun that waits in wx.Yield(), with its child
Suspended(f, p) ==
    [pc |-> f.pc, seq |-> f.seq, i |-> f.i, retcode |-> f.retcode, line |-> f.line,
     ran |-> f.ran, rets |-> f.rets, proc |-> p]

\* wx.Yield() returns to the call of dorun that waited last
Resumed(f) ==
    LET o == f.outer[Len(f.outer)]
    IN  [pc |-> o.pc, seq |-> o.seq, i |-> o.i, retcode |-> o.retcode, line |-> o.line,
         ran |-> o.ran, rets |-> o.rets, started |-> f.started, returned |-> f.returned,
         clicks |-> f.clicks, wx |-> f.wx, left |-> Append(f.left, f.ran), outer |-> SubSeq(f.outer, 1, Len(f.outer) - 1)]

\* EVT_BUTTON of run_btn: AslRun.dorun up to the first call of cmd.run.  The
\* click comes when no handler runs or in a wx.Yield() of a run under way.
dorun ==
    /\ Delivered
    /\ run.run_btn
    /\ IF run.run_seq # <<>>
       THEN /\ output_text' = <<>>
            /\ IF frame.pc = "idle"
               THEN /\ frame' = [NoFrame EXCEPT !.pc = "call", !.seq = run.run_seq, !.i = 1,
                                                !.wx = frame.wx]
                    /\ proc' = proc
               ELSE /\ frame' = [NoFrame EXCEPT !.pc = "call", !.seq = run.run_seq, !.i = 1,
                                                !.started = frame.started,
                                                !.returned = frame.returned,
                                                !.clicks = frame.clicks + 1,
                                                !.wx = frame.wx,
                                                !.left = frame.left,
                                                !.outer = Append(frame.outer,
                                                                 Suspended(frame, proc))]
                    /\ proc' = NoProc
       ELSE UNCHANGED <<output_text, frame, proc>>
    /\ UNCHANGED <<input, analysis, distcorr, calibration, preview, run, call, ret>>

\* line 73: the text of the command is written, and write_output calls wx.Yield()
FslCmd_run_write_cmd ==
    /\ frame.pc = "call"
    /\ output_text' = write_output(output_text, FslCmd_str(frame.seq[frame.i]))
    /\ frame' = [frame EXCEPT !.pc = "yield_cmd"]
    /\ UNCHANGED <<input, analysis, distcorr, calibration, preview, run, call, ret, proc>>

\* lines 74-75: wx.Yield() has returned and the child is started
FslCmd_run_popen ==
    /\ frame.pc = "yield_cmd" /\ Returns
    /\ proc' = [alive |-> TRUE, open |-> TRUE, returncode |-> StillRunning, pipe |-> <<>>,
                written |-> 0]
    /\ frame' = [frame EXCEPT !.pc = "poll", !.started = Append(@, frame.i),
                              !.ran = Append(@, frame.i),
                              !.retcode = StillRunning, !.line = ""]
    /\ UNCHANGED <<input, analysis, distcorr, calibration, preview, run, call, ret,
                   output_text>>

\* line 77: retcode = p.poll()
FslCmd_run_poll ==
    /\ frame.pc = "poll"
    /\ frame' = [frame EXCEPT !.pc = "readline", !.retcode = proc.returncode]
    /\ UNCHANGED <<input, analysis, distcorr, calibration, preview, run, call, ret,
                   output_text, proc>>

\* line 78: line = p.stdout.readline()
FslCmd_run_readline ==
    /\ frame.pc = "readline"
    /\ proc.pipe # <<>> \/ ~proc.open
    /\ frame' = [frame EXCEPT !.pc = "write",
                              !.line = IF proc.pipe # <<>> THEN Head(proc.pipe) ELSE ""]
    /\ proc' = [proc EXCEPT !.pipe = IF @ # <<>> THEN Tail(@) ELSE @]
    /\ UNCHANGED <<input, analysis, distcorr, calibration, preview, run, call, ret,
                   output_text>>

\* line 79: the line is written, and write_output calls wx.Yield()
FslCmd_run_write ==
    /\ frame.pc = "write"
    /\ output_text' = write_output(output_text, frame.line)
    /\ frame' = [frame EXCEPT !.pc = "yield_line"]
    /\ UNCHANGED <<input, analysis, distcorr, calibration, preview, run, call, ret, proc>>

\* lines 80-81: wx.Yield() has returned; the loop goes on if the child ran
\* when it was polled, and else it ends, the return code is written and
\* write_output calls wx.Yield()
FslCmd_run_retcode ==
    /\ frame.pc = "yield_line" /\ Returns
    /\ IF frame.retcode # StillRunning
       THEN /\ output_text' = write_output(output_text,
                                  "Return code: " \o ToString(frame.retcode))
            /\ frame' = [frame EXCEPT !.pc = "yield_return"]
       ELSE /\ output_text' = output_text
            /\ frame' = [frame EXCEPT !.pc = "poll"]
    /\ UNCHANGED <<input, analysis, distcorr, calibration, preview, run, call, ret, proc>>

\* lines 83 and 367-369: wx.Yield() has returned, run returns the code, dorun
\* appends a new line and goes to the next command; after the last one dorun
\* returns, to the event loop or to the wx.Yield() that delivered its click
FslCmd_run_return ==
    /\ frame.pc = "yield_return" /\ Returns
    /\ output_text' = write_output(output_text, "\n")
    /\ \E f \in {dorun_next(frame, frame.retcode)} :
           IF f.pc = "idle" /\ f.outer # <<>>
           THEN /\ frame' = Resumed(f)
                /\ proc' = f.outer[Len(f.outer)].proc
           ELSE /\ frame' = f
                /\ proc' = proc
    /\ UNCHANGED <<input, analysis, distcorr, calibration, preview, run, call, ret>>

\* a wx.Yield() called from inside a wx.Yield(): the build in use shows what
\* it does there.  If the assertion fails, the exception leaves write_output,
\* FslCmd.run and this call of dorun, which has started no child, and the
\* wx.Yield() that delivered its click returns.
wx_Yield_recursive(mode) ==
    /\ frame.pc \in YieldPcs /\ frame.outer # <<>>
    /\ IF mode = "assert" THEN frame.wx \in {"unknown", "assert"} ELSE frame.wx = "unknown"
    /\ IF mode = "assert"
       THEN /\ frame' = [Resumed(frame) EXCEPT !.wx = mode]
            /\ proc' = frame.outer[Len(frame.outer)].proc
       ELSE /\ frame' = [frame EXCEPT !.wx = mode]
            /\ proc' = proc
    /\ UNCHANGED <<input, analysis, distcorr, calibration, preview, run, call, ret,
                   output_text>>

\* the child writes a line to its output
child_write ==
    /\ proc.open /\ proc.written < MaxLines
    /\ proc' = [proc EXCEPT !.written = @ + 1,
                            !.pipe = Append(@, Line(frame.i, proc.written + 1))]
    /\ UNCHANGED <<input, analysis, distcorr, calibration, preview, run, call, ret,
                   output_text, frame>>

\* the child closes its output: readline meets the end of the file once the
\* pipe is empty, while poll still returns None
child_close ==
    /\ proc.open
    /\ proc' = [proc EXCEPT !.open = FALSE]
    /\ UNCHANGED <<input, analysis, distcorr, calibration, preview, run, call, ret,
                   output_text, frame>>

\* the child has exited and poll returns its status
child_exit(code) ==
    /\ proc.alive /\ ~proc.open
    /\ proc' = [proc EXCEPT !.alive = FALSE, !.returncode = code]
    /\ UNCHANGED <<input, analysis, distcorr, calibration, preview, run, call, ret,
                   output_text, frame>>

\* the child of a call of dorun that waits in wx.Yield() writes a line
outer_child_write(k) ==
    /\ k \in 1..Len(frame.outer)
    /\ frame.outer[k].proc.open /\ frame.outer[k].proc.written < MaxLines
    /\ frame' = [frame EXCEPT !.outer[k].proc.written = @ + 1,
                              !.outer[k].proc.pipe =
                                  Append(@, Line(frame.outer[k].i,
                                                 frame.outer[k].proc.written + 1))]
    /\ UNCHANGED <<input, analysis, distcorr, calibration, preview, run, call, ret,
                   output_text, proc>>

\* the child of a call of dorun that waits in wx.Yield() closes its output
outer_child_close(k) ==
    /\ k \in 1..Len(frame.outer)
    /\ frame.outer[k].proc.open
    /\ frame' = [frame EXCEPT !.outer[k].proc.open = FALSE]
    /\ UNCHANGED <<input, analysis, distcorr, calibration, preview, run, call, ret,
                   output_text, proc>>

\* the child of a call of dorun that waits in wx.Yield() has exited
outer_child_exit(k, code) ==
    /\ k \in 1..Len(frame.outer)
    /\ frame.outer[k].proc.alive /\ ~frame.outer[k].proc.open
    /\ frame' = [frame EXCEPT !.outer[k].proc.alive = FALSE,
                              !.outer[k].proc.returncode = code]
    /\ UNCHANGED <<input, analysis, distcorr, calibration, preview, run, call, ret,
                   output_text, proc>>

\* the state in which the user has picked a 4D input image, an output
\* directory and a structural image, to be brain extracted
AslGui_staged ==
    AslInputOptions_update(
        [AslInputOptions_fsl_anat_changed([AslGui_ready EXCEPT !.input.fsl_anat_cb = FALSE])
            EXCEPT !.input.struc_image_cb = TRUE,
                   !.input.struc_image_picker = "/data/struct3d.nii",
                   !.input.struc_image_ch = 1])

InitStaged ==
    /\ \E w \in {AslGui_staged} :
           /\ input = w.input
           /\ analysis = w.analysis
           /\ distcorr = w.distcorr
           /\ calibration = w.calibration
           /\ preview = w.preview
           /\ run = w.run
    /\ call = NoCall
    /\ ret = NoRet
    /\ NotRunning

\* a session in which the user clicks Run while no run is under way, and
\* changes the structural image checkbox at any time
NextRun ==
    \/ struc_image_cb_changed
    \/ frame.pc = "idle" /\ dorun
    \/ FslCmd_run_write_cmd
    \/ FslCmd_run_popen
    \/ FslCmd_run_poll
    \/ FslCmd_run_readline
    \/ FslCmd_run_write
    \/ FslCmd_run_retcode
    \/ FslCmd_run_return
    \/ child_write
    \/ child_close
    \/ \E code \in ExitCodes : child_exit(code)

SpecRun == InitStaged /\ [][NextRun]_vars

\* a session in which the user clicks Run at any time, also during a run;
\* the child of a first command may write lines while no other call of dorun
\* waits, and may fail; the other children write nothing and exit with 0
NextRerun ==
    \/ (frame.pc # "idle" => frame.clicks < MaxClicks) /\ dorun
    \/ FslCmd_run_write_cmd
    \/ FslCmd_run_popen
    \/ FslCmd_run_poll
    \/ FslCmd_run_readline
    \/ FslCmd_run_write
    \/ FslCmd_run_retcode
    \/ FslCmd_run_return
    \/ \E mode \in WxModes : wx_Yield_recursive(mode)
    \/ frame.outer = <<>> /\ frame.i = 1 /\ child_write
    \/ child_close
    \/ \E code \in ExitCodes : (code # 0 => frame.i = 1) /\ child_exit(code)
    \/ \E k \in 1..MaxClicks : outer_child_write(k)
    \/ \E k \in 1..MaxClicks : outer_child_close(k)
    \/ \E k \in 1..MaxClicks, code \in ExitCodes :
           /\ k <= Len(frame.outer)
           /\ code # 0 => frame.outer[k].i = 1
           /\ outer_child_exit(k, code)

SpecRerun == InitStaged /\ [][NextRerun]_vars

-----------------------------------------------------------------------------
(***************************************************************************)
(* PreviewPanel.update and AslRun.get_preview_data                         *)
(*                                                                         *)
(* What asl_file and nibabel do is given by env: popen, whether Popen      *)
(* finds the program; wrote, whether asl_file has written the mean image;  *)
(* readable, whether nibabel reads that image.  The call leaves in ret the *)
(* value returned, the exception that left the method (None when there is  *)
(* none), the command built and the temporary directories left behind;    *)
(* call keeps the data order the preview held at the call and the         *)
(* selection of tc_ch.                                                     *)
(***************************************************************************)

\* the directory tempfile.mkdtemp() makes
TempDir == "/tmp/tmpXXXXXX"

PreviewEnvs == [popen : BOOLEAN, wrote : BOOLEAN, readable : BOOLEAN]

\* lines 398-405: the body of the try, which raises or returns the image
get_preview_data_try(w0, env) ==
    Call(LAMBDA w : (
        LET meanfile == TempDir \o "/mean.nii.gz"
            c1 == FslCmd_add(FslCmd("asl_file"), Tok("--data", "=", Quoted(w.input.data_picker)))
            c2 == FslCmd_add(c1, Tok("--ntis", "=", FmtI(ntis(w))))
            c3 == FslCmd_add(c2, Tok("--mean", "=", Quoted(meanfile)))
            oo == get_data_order_options(w.preview.order, w.preview.tagfirst, tc_pairs(w))
            c4 == FslCmd_add(FslCmd_addall(c3, oo.opts), Flag(oo.diff_opt))
        IN  IF oo.raised # None
            THEN [raised |-> oo.raised, value |-> None, cmd |-> c3]
            ELSE IF ~env.popen
            THEN [raised |-> "[Errno 2] No such file or directory", value |-> None, cmd |-> c4]
            ELSE IF ~env.wrote
            THEN [raised |-> "No such file: " \o meanfile, value |-> None, cmd |-> c4]
            ELSE IF ~env.readable
            THEN [raised |-> "Cannot work out file type of " \o meanfile, value |-> None,
                  cmd |-> c4]
            ELSE [raised |-> None, value |-> "img.get_data()", cmd |-> c4]
    ), w0)

\* get_preview_data with the directory removed after the try only when it
\* has not raised
get_preview_data_no_finally(w0, env) ==
    Call(LAMBDA w : (
        LET t == get_preview_data_try(w, env)
        IN  [value |-> t.value, raised |-> None, cmd |-> t.cmd,
             tempdirs |-> IF t.raised # None THEN {TempDir} ELSE {}]
    ), w0)

\* lines 391-411: mkdtemp, the try, the bare except that returns None, and
\* the finally that removes the directory
get_preview_data(w0, env) ==
    Call(LAMBDA w : (
        LET made == {TempDir}
            t == get_preview_data_try(w, env)
        IN  [value |-> IF t.raised # None THEN None ELSE t.value,
             raised |-> None,
             cmd |-> t.cmd,
             tempdirs |-> made \ {TempDir}]
    ), w0)

\* EVT_BUTTON of update_btn: PreviewPanel.update, as far as self.data
PreviewPanel_update(env) ==
    /\ Delivered
    /\ call' = [method |-> "get_preview_data", env |-> env, order |-> preview.order,
                tagfirst |-> preview.tagfirst, tc_pairs |-> input.tc_cb,
                tc_ch |-> input.tc_ch]
    /\ ret' = get_preview_data(World, env)
    /\ UNCHANGED <<input, analysis, distcorr, calibration, preview, run>>
    /\ UNCHANGED <<output_text, frame, proc>>

\* a session on the data order and the preview of the perfusion image
NextPreview ==
    \/ \E p \in {"/data/gone.nii", "/data/asl12.nii"} : data_picker_changed(p)
    \/ \E k \in 0..2 : choice1_changed(k)
    \/ \E k \in 0..2 : choice2_changed(k)
    \/ tc_cb_changed
    \/ \E k \in 0..1 : tc_ch_changed(k)
    \/ \E env \in PreviewEnvs : PreviewPanel_update(env)

SpecPreview == Init /\ [][NextPreview]_vars

-----------------------------------------------------------------------------
(* A session on the timing: the number of PLDs, the PLDs, the labelling and *)
(* the bolus durations, from the state in which the user has picked a 4D   *)
(* input image and an output directory                                     *)

NextTis ==
    \/ fsl_anat_cb_changed
    \/ \E n \in 1..MaxTis : ntis_int_changed(n)
    \/ \E k \in 0..1 : labelling_changed(k)
    \/ \E k \in 0..1 : bolus_dur_ch_changed(k)
    \/ \E v \in BolusChoices : bolus_dur_changed(v)
    \/ \E c \in 1..MaxTis, v \in BolusChoices : ti_list_changed(c, v)
    \/ \E c \in 1..MaxTis, v \in BolusChoices : bolus_dur_list_changed(c, v)

SpecTis == InitReady /\ [][NextTis]_vars

-----------------------------------------------------------------------------
(* A session on the options that put a flag in the main command, from the  *)
(* state in which the user has picked a 4D input image and an output       *)
(* directory                                                               *)

NextFlags ==
    \/ \E p \in FslAnatChoices : fsl_anat_picker_changed(p)
    \/ wp_cb_changed
    \/ analysis_cb_changed("mask_cb")
    \/ \E p \in AuxChoices : mask_picker_changed(p)
    \/ \E k \in 0..1 : labelling_changed(k)
    \/ analysis_cb_changed("transform_cb")
    \/ \E k \in 0..2 : transform_ch_changed(k)
    \/ \E p \in AuxChoices : transform_picker_changed(p)
    \/ \E k \in 0..1 : readout_ch_changed(k)
    \/ multiband_cb_changed
    \/ distcorr_cb_changed("distcorr_cb")
    \/ calib_cb_changed
    \/ \E p \in AuxChoices : calibration_picker_changed("calib_image_picker", p)

SpecFlags == InitReady /\ [][NextFlags]_vars

-----------------------------------------------------------------------------
(* A session on the features that name a file, from the state in which the *)
(* user has picked a 4D input image and an output directory                *)

NextLazy ==
    \/ fsl_anat_cb_changed
    \/ analysis_cb_changed("mask_cb")
    \/ analysis_cb_changed("transform_cb")
    \/ struc_image_cb_changed
    \/ \E k \in 0..1 : struc_image_ch_changed(k)
    \/ distcorr_cb_changed("distcorr_cb")
    \/ calib_cb_changed
    \/ \E p \in AuxChoices : calibration_picker_changed("calib_image_picker", p)
    \/ \E name \in {"ref_tissue_mask_cb", "coil_image_cb"} : calibration_cb_changed(name)
    \/ \E name \in {"ref_tissue_mask_picker", "coil_image_picker"}, p \in AuxChoices :
           calibration_picker_changed(name, p)

SpecLazy == InitReady /\ [][NextLazy]_vars

-----------------------------------------------------------------------------
(* A session from the start of the program to a plain analysis: the input  *)
(* image, the number of PLDs, the grouping, the pairs, the labelling, the   *)
(* output directory and the FSL_ANAT checkbox                              *)

NextPlain ==
    \/ data_picker_changed("/data/asl12.nii")
    \/ \E n \in 1..MaxTis : ntis_int_changed(n)
    \/ \E k \in 0..2 : choice1_changed(k)
    \/ \E k \in 0..2 : choice2_changed(k)
    \/ tc_cb_changed
    \/ \E k \in 0..1 : labelling_changed(k)
    \/ \E p \in OutdirChoices : outdir_picker_changed(p)
    \/ fsl_anat_cb_changed

SpecPlain == Init /\ [][NextPlain]_vars

-----------------------------------------------------------------------------
(* The whole program: every session's events and the events of the other  *)
(* widgets, from the constructed state.                                    *)
(* Its state space is the product of all the widgets' values; the sessions *)
(* above are the parts of it that are enumerated.                          *)

NextRest ==
    \/ \E c \in 1..MaxTis, v \in CellChoices : ti_list_changed(c, v)
    \/ \E c \in 1..MaxTis, v \in CellChoices : bolus_dur_list_changed(c, v)
    \/ \E p \in FslAnatChoices : fsl_anat_picker_changed(p)
    \/ \E k \in 0..1 : struc_image_ch_changed(k)
    \/ \E p \in AuxChoices : struc_image_brain_picker_changed(p)
    \/ \E name \in {"spatial_cb", "infer_t1_cb", "macro_cb", "fixbolus_cb", "pv_cb", "mc_cb"} :
           analysis_cb_changed(name)
    \/ \E name \in {"bat_num", "t1_num", "t1b_num", "ie_num"}, v \in BolusChoices :
           analysis_num_changed(name, v)
    \/ \E k \in 0..5 : distcorr_value_changed("pedir_ch", k)
    \/ \E v \in BolusChoices : distcorr_value_changed("echosp_num", v)
    \/ \E name \in {"ref_tissue_mask_cb", "coil_image_cb"} : calibration_cb_changed(name)
    \/ \E name \in {"ref_tissue_mask_picker", "coil_image_picker"}, p \in AuxChoices :
           calibration_picker_changed(name, p)
    \/ \E name \in {"seq_tr_num", "calib_gain_num", "seq_te_num", "blood_t2_num",
                     "ref_t1_num", "ref_t2_num"}, v \in BolusChoices :
           calibration_value_changed(name, v)
    \/ \E k \in 0..3 : ref_tissue_type_changed(k)

Next ==
    NextOrder \/ NextCalib \/ NextAcq \/ NextAux \/ NextStruc \/ NextDist \/ NextFlags
    \/ NextLazy \/ NextPlain \/ NextRun \/ NextRerun \/ NextPreview \/ NextTis
    \/ NextRest
    \/ NextCodec

Spec == Init /\ [][Next]_vars

-----------------------------------------------------------------------------
(* The properties *)

\* the ten keys of the table of the orderings, with the text of each entry
TableText ==
    ("trp" :> "--ibf=tis --iaf=diff") @@
    ("trp,tc" :> "--ibf=tis --iaf=tcb") @@
    ("trp,ct" :> "--ibf=tis --iaf=ctb") @@
    ("rtp" :> "--ibf=rpt --iaf=diff") @@
    ("rtp,tc" :> "--rpt --iaf=tcb") @@
    ("rtp,ct" :> "--ibf=rpt --iaf=ctb") @@
    ("ptr,tc" :> "--ibf=tis --iaf=tc") @@
    ("ptr,ct" :> "--ibf=tis --iaf=ct") @@
    ("prt,tc" :> "--ibf=rpt --iaf=tc") @@
    ("prt,ct" :> "--ibf=rpt --iaf=ct")

\* the key of an order, a pairs flag and a tag-first flag
KeyText(order, pairs, tagfirst) ==
    order[1] \o order[2] \o order[3]
    \o (IF pairs THEN (IF tagfirst THEN ",tc" ELSE ",ct") ELSE "")

UnsupportedOrdering == "This data ordering is not supported by ASL_FILE"
InputMissing == "Input data - no such file or directory"
InputNot4D == "Input data is not a 4D image"
OutdirEmpty == "Output directory not specified"
SatRecUnsupported == "Saturation recovery not supported by oxford_asl"
ReadyToGo == "Ready to Go"

\* the message of the check of the volumes
VolumesInconsistent(nvols, T, pairs) ==
    "Input data contains " \o ToString(nvols) \o " volumes - not consistent with "
    \o ToString(T) \o " TIs and TC pairs=" \o (IF pairs THEN "True" ELSE "False")

\* the input image is there and is 4D
Input4D == exists(input.data_picker) /\ img_shape(input.data_picker)[1] = 4

\* the volumes of the input image, and the N they are to be a multiple of
InputVols == img_shape(input.data_picker)[2]
InputN == input.ntis_int * (IF input.tc_cb THEN 2 ELSE 1)

\* C1: get_data_order_options returns, for each of the ten keys of the table,
\* the literal text of the table's entry, and raises the unsupported-ordering
\* error for every other key made of a permutation of t, r, p and an optional
\* ,tc or ,ct suffix.
C1_OrderCodecLookup ==
    call.method = "get_data_order_options" =>
        LET key == KeyText(call.order, call.tc_pairs, call.tagfirst)
        IN  IF key \in DOMAIN TableText
            THEN ret.raised = None /\ JoinBlank(ret.opts) = TableText[key]
            ELSE ret.raised = UnsupportedOrdering /\ ret.opts = <<>>

\* a lookup of the key "tpr,ct", which is not in the table, has failed
C1_Witness ==
    /\ call.method = "get_data_order_options"
    /\ call.order = <<"t", "p", "r">> /\ call.tc_pairs /\ ~call.tagfirst
    /\ ret.raised = UnsupportedOrdering

\* C2: with tag-control pairs on, the two grouping choices reach all six
\* permutations of t, r, p; the lookup of the ordering fails for tpr and rpt,
\* tag first or control first, and succeeds for trp, rtp, ptr and prt; and
\* when the checks before the lookup pass, the ordering error is the one
\* reported exactly for tpr and rpt.
C2_PairsOrderings ==
    input.tc_cb =>
        /\ \A o \in Orders : \E k1 \in 0..2, k2 \in 0..1 :
               update_groups([World EXCEPT !.input.choice1 = k1,
                                           !.input.choice2 = k2]).preview.order = o
        /\ \A tf \in BOOLEAN :
               (get_data_order_options(preview.order, tf, TRUE).raised # None)
               <=> (Str3(preview.order) \in {"tpr", "rpt"})
        /\ (Input4D /\ InputVols % InputN = 0 /\ analysis.outdir_picker # "") =>
               ((run.run_label = UnsupportedOrdering)
                <=> (Str3(preview.order) \in {"tpr", "rpt"}))

\* pairs on, control first, the order rpt chosen, and the ordering error shown
C2_Witness ==
    /\ input.tc_cb /\ input.tc_ch = 1
    /\ Str3(preview.order) = "rpt"
    /\ run.run_label = UnsupportedOrdering
    /\ ~run.run_btn

\* C3: the sequence of markers on_paint builds from an order, T timing
\* points, R repeats, the pairs flag and the tag-first flag has T * R * (2 if
\* pairs else 1) elements.
C3_SequenceLength ==
    call.method = "on_paint" =>
        Len(ret.seq) = call.n_tis * call.n_repeats * (IF call.tc_pairs THEN 2 ELSE 1)

\* T = 2, R = 3, no pairs, order trp: six markers
C3_Witness ==
    /\ call.method = "on_paint"
    /\ call.order = <<"t", "r", "p">> /\ call.n_tis = 2 /\ call.n_repeats = 3
    /\ ~call.tc_pairs
    /\ Len(ret.seq) = 6

\* C4: for a 4D input of nvols volumes and N = T * (2 if pairs else 1), the
\* check of the volumes is the one that fails exactly when nvols is not a
\* multiple of N, and when nvols = q * N the repeats shown and the repeats of
\* the preview are q.
C4_VolumeCount ==
    Input4D =>
        /\ (run.run_label = VolumesInconsistent(InputVols, input.ntis_int, input.tc_cb))
           <=> (InputVols % InputN # 0)
        /\ InputVols % InputN # 0 => input.nrepeats_label = "<Unknown>"
        /\ \A q \in 1..InputVols :
               q * InputN = InputVols =>
                   /\ input.nrepeats_label = ToString(q)
                   /\ preview.n_repeats = q

\* 24 volumes, three TIs and pairs: four repeats
C4_Witness ==
    /\ input.data_picker = "/data/asl24.nii"
    /\ input.ntis_int = 3 /\ input.tc_cb
    /\ input.nrepeats_label = "4" /\ preview.n_repeats = 4

\* the five conditions of the first checks
Cond1 == ~exists(input.data_picker)
Cond2 == exists(input.data_picker) /\ img_shape(input.data_picker)[1] # 4
Cond3 == Input4D /\ InputVols % InputN # 0
Cond4 == analysis.outdir_picker = ""
Cond5 == KeyText(preview.order, input.tc_cb, input.tc_ch = 0) \notin DOMAIN TableText

FirstDiagnostics ==
    {InputMissing, InputNot4D, OutdirEmpty, UnsupportedOrdering,
     VolumesInconsistent(InputVols, input.ntis_int, input.tc_cb)}

\* C5: of the conditions (1) input missing, (2) input not 4D, (3) volumes
\* not a multiple of N, (4) no output directory, (5) ordering not supported,
\* the one diagnostic reported is that of the first that holds, and none of
\* the five is reported when none holds.
C5_FirstFailureWins ==
    run.run_label =
        IF Cond1 THEN InputMissing
        ELSE IF Cond2 THEN InputNot4D
        ELSE IF Cond3 THEN VolumesInconsistent(InputVols, input.ntis_int, input.tc_cb)
        ELSE IF Cond4 THEN OutdirEmpty
        ELSE IF Cond5 THEN UnsupportedOrdering
        ELSE IF run.run_label \in FirstDiagnostics THEN "" ELSE run.run_label

\* the output directory is empty and the ordering is not supported, and the
\* diagnostic is that of the output directory
C5_Witness ==
    /\ ~Cond1 /\ ~Cond2 /\ ~Cond3 /\ Cond4 /\ Cond5
    /\ run.run_label = OutdirEmpty

\* C6: with the calibration on and the saturation recovery M0 type,
\* get_run_sequence raises and no sequence of commands is held.
C6_SatRecFails ==
    (calibration.calib_cb /\ calibration.m0_type_ch = 1) =>
        /\ get_run_sequence(World).raised # None
        /\ get_run_sequence(World).run = <<>>
        /\ run.run_seq = <<>> /\ ~run.run_btn

\* everything else is in order (the calibration image is there, the
\* structural data is off) and the saturation recovery is what is refused
C6_Witness ==
    /\ calibration.calib_cb /\ calibration.m0_type_ch = 1
    /\ exists(calibration.calib_image_picker)
    /\ Input4D /\ analysis.outdir_picker # "" /\ ~input.fsl_anat_cb
    /\ run.run_label = SatRecUnsupported

\* an auxiliary file that is in use is missing
MaskMissing == analysis.mask_cb /\ ~exists(analysis.mask_picker)
TransformMissing ==
    analysis.transform_cb /\ analysis.transform_ch \in {0, 1}
    /\ ~exists(analysis.transform_picker)
FslAnatMissing == input.fsl_anat_cb /\ ~exists(input.fsl_anat_picker)
StrucMissing ==
    ~input.fsl_anat_cb /\ input.struc_image_cb
    /\ (~exists(input.struc_image_picker)
        \/ (input.struc_image_ch = 0 /\ ~exists(input.struc_image_brain_picker)))
FieldmapMissing ==
    distcorr.distcorr_cb /\ distcorr.distcorr_ch = 0
    /\ (~exists(distcorr.fmap_picker) \/ ~exists(distcorr.fmap_mag_picker))
CalibImageMissing == calibration.calib_cb /\ ~exists(calibration.calib_image_picker)
AuxMissing ==
    MaskMissing \/ TransformMissing \/ FslAnatMissing \/ StrucMissing
    \/ FieldmapMissing \/ CalibImageMissing

\* the checks of the input, the output directory and the ordering pass
FirstChecksPass == ~Cond1 /\ ~Cond2 /\ ~Cond3 /\ ~Cond4 /\ ~Cond5

SatRecOn == calibration.calib_cb /\ calibration.m0_type_ch = 1

\* the statement of C7 as it stands: with the saturation recovery on and an
\* auxiliary file in use missing, the diagnostic is the saturation recovery one
C7_SatRecBeforeFiles ==
    (FirstChecksPass /\ SatRecOn
     /\ (MaskMissing \/ TransformMissing \/ StrucMissing \/ FieldmapMissing
         \/ CalibImageMissing))
    => run.run_label = SatRecUnsupported

\* the distortion correction from a fieldmap is on
FieldmapOn == distcorr.distcorr_cb /\ distcorr.distcorr_ch = 0

\* C7: the saturation recovery is refused after the auxiliary files are
\* looked for, not before: the diagnostic is the saturation recovery one only
\* when the checks of the input, the output directory and the ordering pass,
\* the saturation recovery is on and no auxiliary file in use (brain mask,
\* transform or warp, FSL_ANAT directory, structural images, fieldmap
\* images, calibration image) is missing.  So with such a file missing the
\* diagnostic is never the saturation recovery one.
C7_FilesBeforeSatRec ==
    run.run_label = SatRecUnsupported =>
        FirstChecksPass /\ SatRecOn /\ ~AuxMissing

\* the saturation recovery is on, the calibration image is there, the brain
\* mask is in use and missing, and the diagnostic is that of the mask
C7_Witness ==
    /\ SatRecOn /\ exists(calibration.calib_image_picker)
    /\ MaskMissing
    /\ run.run_label = "Analysis mask - no such file or directory"

\* the text of each command of a sequence
CmdStrings(seq) == [i \in 1..Len(seq) |-> FslCmd_str(seq[i])]

\* C8: when an update has accepted the configuration, a second call of
\* get_run_sequence on the same configuration succeeds with as many commands
\* as the first returned, the same text for each, and writes the repeats
\* label and the parameters of the preview that are there already.
C8_Idempotent ==
    run.run_seq # <<>> =>
        /\ get_run_sequence(World).raised = None
        /\ Len(get_run_sequence(World).run) = Len(run.run_seq)
        /\ CmdStrings(get_run_sequence(World).run) = CmdStrings(run.run_seq)
        /\ get_run_sequence(World).preview = preview
        /\ get_run_sequence(World).nrepeats_label = input.nrepeats_label

\* an accepted configuration where the first call has written the preview:
\* control first, two TIs, three repeats
C8_Witness ==
    /\ run.run_seq # <<>> /\ run.run_label = ReadyToGo
    /\ input.tc_cb /\ input.tc_ch = 1 /\ ~preview.tagfirst
    /\ preview.n_tis = 2 /\ preview.n_repeats = 3
    /\ input.nrepeats_label = "3"

\* C9: the sequence held for the Run button is what get_run_sequence makes of
\* the current configuration (nothing when it raises).
C9_RunSeqCurrent ==
    run.run_seq = get_run_sequence(World).run

\* the main command of a sequence of commands
MainCmd(seq) == seq[Len(seq)]

RefRegionOpts == {"--tissref", "--te", "--t1csf", "--t2csf", "--t2bl", "--csf", "--cref"}

\* C10: when get_run_sequence succeeds, with white paper mode on the main
\* command has --wp and neither --t1 nor --bat, and with the calibration on
\* it has "--cmethod voxel" and no option of the reference region; with
\* white paper mode off it has --t1 and --bat and no --wp.
C10_WhitePaperFlags ==
    get_run_sequence(World).raised = None =>
        LET cmd == MainCmd(get_run_sequence(World).run)
        IN  /\ cmd.prog = "oxford_asl"
            /\ IF analysis.wp_cb
               THEN /\ HasOpt(cmd, "--wp")
                    /\ ~HasOpt(cmd, "--t1") /\ ~HasOpt(cmd, "--bat")
                    /\ calibration.calib_cb =>
                           /\ HasTok(cmd, Tok("--cmethod", " ", "voxel"))
                           /\ \A i \in 1..Len(cmd.args) : cmd.args[i].opt = "--cmethod"
                                  => cmd.args[i].val = "voxel"
                           /\ Opts(cmd) \cap RefRegionOpts = {}
               ELSE /\ HasOpt(cmd, "--t1") /\ HasOpt(cmd, "--bat")
                    /\ ~HasOpt(cmd, "--wp")

\* white paper mode and the calibration are on, and the configuration is
\* accepted
C10_Witness ==
    /\ analysis.wp_cb /\ calibration.calib_cb
    /\ run.run_label = ReadyToGo
    /\ HasTok(MainCmd(run.run_seq), Tok("--cmethod", " ", "voxel"))

\* C11: in every state where white paper mode is on, the T1 is 1.65 and the
\* bolus arrival time is 0, also after the labelling is changed.
C11_WhitePaperPair ==
    analysis.wp_cb => (analysis.t1_num = 165 /\ analysis.bat_num = 0)

\* a raw structural image is in use: the structural image is ticked and the
\* FSL_ANAT directory is not
RawStructural == input.struc_image_cb /\ ~input.fsl_anat_cb

StagedHead == "\"" \o analysis.outdir_picker \o "/structural_head\""
StagedBrain == "\"" \o analysis.outdir_picker \o "/structural_brain\""

\* C12: an accepted configuration with a raw structural image has three
\* commands: the copy of the structural image to <outdir>/structural_head,
\* the brain extraction or the copy of the brain image to
\* <outdir>/structural_brain, and the main oxford_asl command; every other
\* accepted configuration has the main command alone.
C12_SequenceShape ==
    run.run_seq # <<>> =>
        IF RawStructural
        THEN /\ Len(run.run_seq) = 3
             /\ FslCmd_str(run.run_seq[1])
                    = "imcp \"" \o input.struc_image_picker \o "\" " \o StagedHead
             /\ IF input.struc_image_ch = 1
                THEN /\ run.run_seq[2].prog = "bet"
                     /\ Len(run.run_seq[2].args) = 2
                     /\ TokStr(run.run_seq[2].args[2]) = StagedBrain
                ELSE FslCmd_str(run.run_seq[2])
                         = "imcp \"" \o input.struc_image_brain_picker \o "\" " \o StagedBrain
             /\ run.run_seq[3].prog = "oxford_asl"
        ELSE /\ Len(run.run_seq) = 1
             /\ run.run_seq[1].prog = "oxford_asl"

\* a structural image with the brain extraction, accepted: three commands
C12_Witness ==
    /\ RawStructural /\ input.struc_image_ch = 1
    /\ run.run_label = ReadyToGo
    /\ Len(run.run_seq) = 3
    /\ run.run_seq[2].prog = "bet"

\* the statement of C13 as it stands: the brain extraction reads the copy
\* <outdir>/structural_head
C13_BetOnCopy ==
    (run.run_seq # <<>> /\ RawStructural /\ input.struc_image_ch = 1) =>
        FslCmd_str(run.run_seq[2]) = "bet " \o StagedHead \o " " \o StagedBrain

\* C13: when the brain extraction is asked for a raw structural image, the
\* bet command reads the structural image the user picked (the source of the
\* copy before it) and writes <outdir>/structural_brain.
C13_BetOnPicked ==
    (run.run_seq # <<>> /\ RawStructural /\ input.struc_image_ch = 1) =>
        FslCmd_str(run.run_seq[2])
            = "bet \"" \o input.struc_image_picker \o "\" " \o StagedBrain

\* the brain extraction of /data/aux.nii into /out
C13_Witness ==
    /\ RawStructural /\ input.struc_image_ch = 1
    /\ run.run_seq # <<>>
    /\ FslCmd_str(run.run_seq[2]) = "bet \"/data/aux.nii\" \"/out/structural_brain\""

\* how many times an option is in a command
Count(cmd, opt) == Cardinality({i \in 1..Len(cmd.args) : cmd.args[i].opt = opt})

\* C15: the strategy "Use FSL_ANAT output" is there to select only while the
\* FSL_ANAT checkbox is on; an accepted main command has at most one of
\* --asl2struc and --regfrom, and has --fslanat whenever the transform is
\* on with the strategy "Use FSL_ANAT output".
C15_RegistrationStrategy ==
    /\ analysis.transform_ch = 2 => input.fsl_anat_cb
    /\ analysis.transform_ch_n = (IF input.fsl_anat_cb THEN 3 ELSE 2)
    /\ run.run_seq # <<>> =>
           LET cmd == MainCmd(run.run_seq)
           IN  /\ Count(cmd, "--asl2struc") + Count(cmd, "--regfrom") <= 1
               /\ (analysis.transform_cb /\ analysis.transform_ch = 2)
                      => Count(cmd, "--fslanat") = 1

\* the transform is on with the FSL_ANAT strategy, and --fslanat is there
C15_Witness ==
    /\ analysis.transform_cb /\ analysis.transform_ch = 2
    /\ run.run_label = ReadyToGo
    /\ HasTok(MainCmd(run.run_seq), Tok("--fslanat", "=", "\"/data/anat.anat\""))

\* the configuration without the distortion correction is accepted
ValidWithoutDistcorr ==
    get_run_sequence([World EXCEPT !.distcorr.distcorr_cb = FALSE]).raised = None

\* the options o1, o2, o3, o4 are in a command in this order
InOrder4(cmd, o1, o2, o3, o4) ==
    \E i, j, k, l \in 1..Len(cmd.args) :
        /\ i < j /\ j < k /\ k < l
        /\ cmd.args[i].opt = o1 /\ cmd.args[j].opt = o2
        /\ cmd.args[k].opt = o3 /\ cmd.args[l].opt = o4

\* C16: with the distortion correction from a fieldmap on, the fieldmap and
\* the magnitude image there and the rest of the configuration valid,
\* get_run_sequence succeeds and the main command has --fmap, then
\* --fmapmagbrain (magnitude image brain extracted) or --fmapmag, then
\* --echospacing and --pedir.
C16_FieldmapCompiles ==
    (FieldmapOn /\ exists(distcorr.fmap_picker) /\ exists(distcorr.fmap_mag_picker)
     /\ ValidWithoutDistcorr) =>
        /\ get_run_sequence(World).raised = None
        /\ run.run_label = ReadyToGo
        /\ InOrder4(MainCmd(get_run_sequence(World).run), "--fmap",
                    IF distcorr.fmap_mag_be_cb THEN "--fmapmagbrain" ELSE "--fmapmag",
                    "--echospacing", "--pedir")

\* the place of an option in the order of the groups of the main command
\* (0 for an option that is in no group)
Rank(opt) ==
    CASE opt = " -i" -> 1
      [] opt = "-o" -> 2
      [] opt \in {"--ibf", "--iaf", "--rpt"} -> 3
      [] opt = "--tis" -> 4
      [] opt = "--bolus" -> 5
      [] opt \in {"--wp", "--t1"} -> 6
      [] opt = "--bat" -> 7
      [] opt = "--t1b" -> 8
      [] opt = "--alpha" -> 9
      [] opt = "--spatial" -> 10
      [] opt = "--fixbolus" -> 11
      [] opt = "--mc" -> 12
      [] opt = "--infert1" -> 13
      [] opt = "--pvcorr" -> 14
      [] opt = "--artoff" -> 15
      [] opt = "-m" -> 16
      [] opt = "--casl" -> 17
      [] opt \in {"--asl2struc", "--regfrom"} -> 18
      [] opt \in {"--fslanat", "--s", "--sbrain"} -> 19
      [] opt = "--slicedt" -> 20
      [] opt = "--sliceband" -> 21
      [] opt \in {"--fmap", "--fmapmag", "--fmapmagbrain", "--cblip", "--echospacing",
                  "--pedir"} -> 22
      [] opt \in {"-c", "--tr", "--cgain", "--cmethod", "--tissref", "--te", "--t1csf",
                  "--t2csf", "--t2bl", "--csf", "--cref"} -> 23
      [] OTHER -> 0

\* the options of a command are in the order of the groups, the five fixed
\* options among them
GroupsInOrder(cmd) ==
    /\ cmd.prog = "oxford_asl"
    /\ \A i \in 1..Len(cmd.args) : Rank(cmd.args[i].opt) > 0
    /\ \A i, j \in 1..Len(cmd.args) :
           i < j => Rank(cmd.args[i].opt) <= Rank(cmd.args[j].opt)
    /\ {" -i", "-o", "--tis", "--bolus"} \subseteq Opts(cmd)
    /\ {"--t1b", "--alpha", "--spatial", "--fixbolus", "--mc"} \subseteq Opts(cmd)

\* the configuration with the three checkboxes infer_t1_cb, pv_cb and macro_cb
\* as b gives them (the three are never disabled and their handler is
\* AslAnalysis.update alone: each of these configurations is some ticks away)
WithFlags(b) ==
    [World EXCEPT !.analysis.infer_t1_cb = b[1], !.analysis.pv_cb = b[2],
                  !.analysis.macro_cb = b[3]]

\* C14: in every main command that get_run_sequence compiles, the options
\* are in the order input, output directory, ordering flags, --tis, --bolus,
\* --wp or --t1 --bat, --t1b, --alpha, --spatial, --fixbolus, --mc,
\* --infert1, --pvcorr, --artoff, -m, --casl, registration, structural,
\* --slicedt --sliceband, distortion correction, calibration; and --t1b,
\* --alpha, --spatial, --fixbolus and --mc are in every one of them.
C14_GroupOrder ==
    /\ run.run_seq # <<>> => GroupsInOrder(MainCmd(run.run_seq))
    /\ \A b \in [1..3 -> BOOLEAN] :
           get_run_sequence(WithFlags(b)).raised = None =>
               GroupsInOrder(MainCmd(get_run_sequence(WithFlags(b)).run))

\* an accepted command with an option of most of the groups
C14_Witness ==
    /\ run.run_label = ReadyToGo
    /\ {"--t1", "--bat", "--artoff", "-m", "--casl", "--asl2struc", "--fslanat",
        "--slicedt", "--sliceband", "--echospacing", "--pedir", "-c", "--cmethod"}
           \subseteq Opts(MainCmd(run.run_seq))

\* the files a configuration may name
AuxFiles ==
    {"mask", "transform", "fsl_anat", "struc", "brain", "fmap", "fmap_mag", "calib",
     "ref", "coil"}

\* the path a configuration holds for a file
AuxPath(f, w) ==
    CASE f = "mask" -> w.analysis.mask_picker
      [] f = "transform" -> w.analysis.transform_picker
      [] f = "fsl_anat" -> w.input.fsl_anat_picker
      [] f = "struc" -> w.input.struc_image_picker
      [] f = "brain" -> w.input.struc_image_brain_picker
      [] f = "fmap" -> w.distcorr.fmap_picker
      [] f = "fmap_mag" -> w.distcorr.fmap_mag_picker
      [] f = "calib" -> w.calibration.calib_image_picker
      [] f = "ref" -> w.calibration.ref_tissue_mask_picker
      [] f = "coil" -> w.calibration.coil_image_picker

\* the configuration with another path for a file
WithAuxPath(f, p, w) ==
    CASE f = "mask" -> [w EXCEPT !.analysis.mask_picker = p]
      [] f = "transform" -> [w EXCEPT !.analysis.transform_picker = p]
      [] f = "fsl_anat" -> [w EXCEPT !.input.fsl_anat_picker = p]
      [] f = "struc" -> [w EXCEPT !.input.struc_image_picker = p]
      [] f = "brain" -> [w EXCEPT !.input.struc_image_brain_picker = p]
      [] f = "fmap" -> [w EXCEPT !.distcorr.fmap_picker = p]
      [] f = "fmap_mag" -> [w EXCEPT !.distcorr.fmap_mag_picker = p]
      [] f = "calib" -> [w EXCEPT !.calibration.calib_image_picker = p]
      [] f = "ref" -> [w EXCEPT !.calibration.ref_tissue_mask_picker = p]
      [] f = "coil" -> [w EXCEPT !.calibration.coil_image_picker = p]

\* the diagnostics of a file that is not there
AuxLabels(f) ==
    CASE f = "mask" -> {"Analysis mask - no such file or directory"}
      [] f = "transform" -> {"Transformation matrix - no such file or directory",
                             "Warp image - no such file or directory"}
      [] f = "fsl_anat" -> {"FSL_ANAT - no such file or directory"}
      [] f = "struc" -> {"Structural image - no such file or directory"}
      [] f = "brain" -> {"Structural brain image - no such file or directory"}
      [] f = "fmap" -> {"Fieldmap image - no such file or directory"}
      [] f = "fmap_mag" -> {"Fieldmap magnitude image - no such file or directory"}
      [] f = "calib" -> {"Calibration image - no such file or directory"}
      [] f = "ref" -> {"Calibration reference tissue mask - no such file or directory"}
      [] f = "coil" -> {"Coil sensitivity reference image - no such file or directory"}

\* the feature that names the file is on
AuxInUse(f, w) ==
    CASE f = "mask" -> w.analysis.mask_cb
      [] f = "transform" -> w.analysis.transform_cb /\ w.analysis.transform_ch \in {0, 1}
      [] f = "fsl_anat" -> w.input.fsl_anat_cb
      [] f = "struc" -> w.input.struc_image_cb /\ ~w.input.fsl_anat_cb
      [] f = "brain" -> w.input.struc_image_cb /\ ~w.input.fsl_anat_cb
                        /\ w.input.struc_image_ch = 0
      [] f = "fmap" -> w.distcorr.distcorr_cb /\ w.distcorr.distcorr_ch = 0
      [] f = "fmap_mag" -> w.distcorr.distcorr_cb /\ w.distcorr.distcorr_ch = 0
      [] f = "calib" -> w.calibration.calib_cb
      [] f = "ref" -> w.calibration.calib_cb /\ w.calibration.calib_mode_ch = 0
                      /\ w.calibration.ref_tissue_mask_cb
      [] f = "coil" -> w.calibration.calib_cb /\ w.calibration.calib_mode_ch = 0
                       /\ w.calibration.coil_image_cb

\* a path that exists for one that does not, and the reverse
OtherPath(p) == IF exists(p) THEN "/data/gone.nii" ELSE "/data/aux.nii"

\* what get_run_sequence makes of a configuration: the exception and the
\* text of the commands
Outcome(w) ==
    [raised |-> get_run_sequence(w).raised, run |-> CmdStrings(get_run_sequence(w).run)]

\* C17: the diagnostic of the update is that of a missing file (brain mask,
\* transform or warp, FSL_ANAT directory, structural image, brain image,
\* fieldmap, magnitude image, calibration image, reference tissue mask, coil
\* sensitivity image) only when the feature that names the file is on and
\* the file is not there; and while the feature is off, the path has no part
\* in what get_run_sequence does: with a path that exists in place of one
\* that does not, or the reverse, the outcome is the same.
C17_LazyChecks ==
    \A f \in AuxFiles :
        /\ run.run_label \in AuxLabels(f) =>
               AuxInUse(f, World) /\ ~exists(AuxPath(f, World))
        /\ ~AuxInUse(f, World) =>
               /\ ~exists(OtherPath(AuxPath(f, World))) <=> exists(AuxPath(f, World))
               /\ Outcome(WithAuxPath(f, OtherPath(AuxPath(f, World)), World))
                     = Outcome(World)

\* the mask of the reference tissue is on and missing and the update fails
\* on it, while the coil image, off, is missing too
C17_Witness ==
    /\ calibration.calib_cb /\ calibration.ref_tissue_mask_cb
    /\ ~calibration.coil_image_cb /\ ~exists(calibration.coil_image_picker)
    /\ run.run_label = "Calibration reference tissue mask - no such file or directory"

\* the scenario of a plain analysis: an input of 12 volumes, three PLDs, no
\* pairs, the order trp, a 3D readout, an output directory, no structural
\* data, no distortion correction, no calibration, and every other option
\* as the program starts it
PlainScenario ==
    /\ input.data_picker = "/data/asl12.nii" /\ InputVols = 12
    /\ input.ntis_int = 3 /\ ~input.tc_cb
    /\ preview.order = <<"t", "r", "p">>
    /\ input.readout_ch = 0
    /\ analysis.outdir_picker # ""
    /\ ~input.fsl_anat_cb /\ ~input.struc_image_cb
    /\ ~distcorr.distcorr_cb /\ ~calibration.calib_cb
    /\ ~analysis.mask_cb /\ ~analysis.transform_cb /\ ~analysis.wp_cb
    /\ analysis.spatial_cb /\ analysis.fixbolus_cb /\ ~analysis.mc_cb
    /\ ~analysis.macro_cb /\ ~analysis.infer_t1_cb /\ ~analysis.pv_cb

\* the options of the plain analysis but the labelling flag
PlainOpts ==
    {" -i", "-o", "--ibf", "--iaf", "--tis", "--bolus", "--t1", "--bat", "--t1b",
     "--alpha", "--spatial", "--fixbolus", "--mc", "--artoff"}

\* the one command of the scenario has its ordering flags, three timing
\* values, one bolus duration, the four parameters and the fixed flags
PlainCommand ==
    /\ run.run_label = ReadyToGo /\ run.run_btn
    /\ Len(run.run_seq) = 1
    /\ LET cmd == run.run_seq[1]
       IN  /\ cmd.prog = "oxford_asl"
           /\ PlainOpts \subseteq Opts(cmd)
           /\ HasTok(cmd, Tok("--ibf", "=", "tis")) /\ HasTok(cmd, Tok("--iaf", "=", "diff"))
           /\ Len(tis(World).value) = 3
           /\ HasTok(cmd, Tok("--tis", " ",
                              Fmt2(tis(World).value[1]) \o "," \o Fmt2(tis(World).value[2]) \o ","
                              \o Fmt2(tis(World).value[3])))
           /\ HasTok(cmd, Tok("--bolus", " ", Fmt2(input.bolus_dur_num)))
           /\ HasTok(cmd, Tok("--t1", " ", Fmt2(analysis.t1_num)))
           /\ HasTok(cmd, Tok("--bat", " ", Fmt2(analysis.bat_num)))
           /\ HasTok(cmd, Tok("--t1b", " ", Fmt2(analysis.t1b_num)))
           /\ HasTok(cmd, Tok("--alpha", " ", Fmt2(analysis.ie_num)))
           /\ HasTok(cmd, Tok("--spatial", "=", "1"))
           /\ HasTok(cmd, Tok("--fixbolus", "=", "1"))
           /\ HasTok(cmd, Tok("--mc", "=", "0"))
           /\ HasTok(cmd, Flag("--artoff"))

\* the statement of C18 as it stands: in the scenario the one command has
\* the options of the plain analysis and no other, the labelling flag no
\* more than the flags of the mask, the registration, the structural data,
\* the distortion correction and the calibration
C18_NoLabellingFlag ==
    PlainScenario => (PlainCommand /\ Opts(run.run_seq[1]) = PlainOpts)

\* C18: in the scenario the compiled sequence is one oxford_asl command with
\* the ordering flags of trp, three timing values, one bolus duration, the
\* T1, BAT, T1b and alpha flags, --spatial=1, --fixbolus=1, --mc=0 and
\* --artoff, with --casl when the labelling is cASL/pcASL (as it is when the
\* program starts) and not when it is pASL, and with no flag of the mask,
\* the registration, the structural data, the distortion correction or the
\* calibration.
C18_PlainScenario ==
    PlainScenario =>
        /\ PlainCommand
        /\ Opts(run.run_seq[1])
             = PlainOpts \cup (IF input.labelling_ch = 1 THEN {"--casl"} ELSE {})

\* the scenario with the labelling the program starts with, the timing
\* values being the PLD and the bolus duration together
C18_Witness ==
    /\ PlainScenario /\ input.labelling_ch = 1
    /\ HasTok(run.run_seq[1], Tok("--tis", " ", "3.60,3.60,3.60"))
    /\ HasTok(run.run_seq[1], Flag("--casl"))

\* C19: the commands of the stored sequence are run one at a time: no two
\* children run at one time.  Every call of dorun, whether it is the only one
\* or one that a click during a run has started, runs the commands in the
\* order of the list: the commands it has entered so far are the first ones
\* of the list, each once; a command is entered only when the run of the one
\* before has returned, with the exit status of its child, which has exited;
\* and when a call of dorun has ended every command of the list has been run
\* once, whatever the exit statuses.
C19_Sequential ==
    /\ \A k \in 1..Len(frame.outer) :
           /\ ~(proc.alive /\ frame.outer[k].proc.alive)
           /\ \A l \in 1..Len(frame.outer) :
                  k # l => ~(frame.outer[k].proc.alive /\ frame.outer[l].proc.alive)
    /\ \A j \in 1..Len(frame.left) : frame.left[j] = [c \in 1..Len(frame.seq) |-> c]
    /\ \A d \in 0..Len(frame.outer) :
           LET f == IF d = 0 THEN frame ELSE frame.outer[d]
               p == IF d = 0 THEN proc ELSE frame.outer[d].proc
           IN  /\ f.ran = [j \in 1..Len(f.ran) |-> j]
               /\ Len(f.ran) <= Len(f.seq)
               /\ Len(f.rets) <= Len(f.ran)
               /\ Len(f.ran) <= Len(f.rets) + 1
               /\ \A j \in 1..Len(f.rets) : f.rets[j] \in ExitCodes
               /\ f.pc \in {"call", "yield_cmd"} =>
                      /\ Len(f.ran) = Len(f.rets) /\ f.i = Len(f.ran) + 1
                      /\ f.i > 1 => ~p.alive /\ p.returncode = f.rets[f.i - 1]
               /\ f.pc \in {"poll", "readline", "write", "yield_line", "yield_return"} =>
                      Len(f.ran) = Len(f.rets) + 1 /\ f.i = Len(f.ran)
               /\ f.pc = "idle" =>
                      Len(f.ran) = Len(f.seq) /\ Len(f.rets) = Len(f.seq)

\* C19, one click: a call of dorun that no other call interrupts runs the
\* commands of the list in order, one at a time, each once
C19_OneCall ==
    frame.clicks = 0 => C19_Sequential

\* two children run at one time: a click during a run, in a build whose
\* nested wx.Yield() returns, has started the first command once more
C19_TwoChildren ==
    \A k \in 1..Len(frame.outer) : ~(proc.alive /\ frame.outer[k].proc.alive)

\* a call of dorun has ended having run none of its commands: a click during
\* a run, in a build whose nested wx.Yield() raises
C19_NoneRun ==
    \A j \in 1..Len(frame.left) : frame.left[j] # <<>>

\* C20: when the loop of FslCmd.run has ended and run reports the return
\* code, every line the child wrote has been read from the pipe and given
\* to write_output: no line is left in the pipe.
C20_OutputDrained ==
    frame.pc = "yield_return" => proc.pipe = <<>>

\* C21: when get_preview_data returns, the temporary directory it made is
\* gone, whether the image was read, the ordering is not supported, asl_file
\* could not be started or wrote nothing, or the image could not be read;
\* no exception leaves the method, and it returns None in each case but the
\* first.
C21_TempDirRemoved ==
    call.method = "get_preview_data" =>
        /\ ret.tempdirs = {}
        /\ ret.raised = None
        /\ (ret.value # None)
             <=> (/\ KeyText(call.order, call.tc_pairs, call.tagfirst) \in DOMAIN TableText
                  /\ call.env.popen /\ call.env.wrote /\ call.env.readable)

\* the ordering is not supported and the call has returned None
C21_Witness ==
    /\ call.method = "get_preview_data"
    /\ KeyText(call.order, call.tc_pairs, call.tagfirst) \notin DOMAIN TableText
    /\ ret.value = None /\ ret.tempdirs = {}

\* C22: while the tag-control pairs are off, the order the groups give is trp
\* or rtp, whatever the two choices held when the pairs were turned off: the
\* choices are put back to the TIs and the repeats, the pairs are never in
\* the first or the second place, and the order is in the table.
C22_ClampedOrder ==
    ~input.tc_cb =>
        /\ preview.order \in {<<"t", "r", "p">>, <<"r", "t", "p">>}
        /\ input.choice1 \in {0, 1} /\ input.choice2 = 0
        /\ get_data_order_options(preview.order, preview.tagfirst, FALSE).raised = None

\* the pairs are off and the repeats come first
C22_Witness ==
    /\ ~input.tc_cb
    /\ input.choice1 = 1
    /\ preview.order = <<"r", "t", "p">>

\* C23: whatever the choices of the groups and the pairs checkbox have been
\* through, the order has three letters and each of t, r and p is in it once.
C23_OrderPermutation ==
    /\ Len(preview.order) = 3
    /\ \A c \in {"t", "r", "p"} :
           Cardinality({k \in 1..3 : preview.order[k] = c}) = 1

\* the pairs first and the TIs last
C23_Witness ==
    /\ input.tc_cb
    /\ input.choice1 = 2 /\ input.choice2 = 1
    /\ preview.order = <<"p", "r", "t">>

\* after an update: the button is enabled exactly when get_run_sequence
\* succeeds; when it fails no sequence is held and the status is its error
Validated ==
    /\ run.run_btn <=> (get_run_sequence(World).raised = None)
    /\ run.run_btn => (run.run_seq # <<>> /\ run.run_label = ReadyToGo)
    /\ ~run.run_btn =>
           (run.run_seq = <<>> /\ run.run_label = get_run_sequence(World).raised)

\* an update on a configuration that get_run_sequence accepts, after one
\* that it refused, enables the button and holds the sequence again
Recovers ==
    (~run.run_btn /\ get_run_sequence(World').raised = None) =>
        (run.run_btn' /\ run.run_seq' = get_run_sequence(World').run
         /\ run.run_label' = ReadyToGo)

\* C24: after every AslRun.update the Run button is enabled exactly when
\* get_run_sequence has succeeded; when it has failed the stored sequence is
\* empty (dorun has nothing to run) and the status is the error raised, the
\* first one; and an update after the configuration is put right succeeds
\* and enables the button again.
C24_NonFatal == [](Validated) /\ [][Recovers]_vars

\* the program starts with a refused configuration (no input image); here it
\* has been put right and the three commands of a structural image are held
C24_Witness ==
    /\ run.run_btn /\ run.run_label = ReadyToGo
    /\ Len(run.run_seq) = 3
    /\ get_run_sequence(World).raised = None

\* the ordering options among the arguments of a command
OrderingArgs(cmd) ==
    SelectSeq(cmd.args, LAMBDA t : t.opt \in {"--ibf", "--iaf", "--rpt"})

\* C25: the ordering options of the main command and of the asl_file
\* command of the preview are those of the key made with the selection of
\* 'Tag then control' or 'Control then tag' that the input tab now shows
\* (,tc exactly when 'Tag then control' is selected).
C25_TagFirstCurrent ==
    /\ (run.run_seq # <<>> /\ input.tc_cb) =>
           OrderingArgs(MainCmd(run.run_seq))
             = order_opts[KeyText(preview.order, TRUE, input.tc_ch = 0)]
    /\ (call.method = "get_preview_data" /\ call.tc_pairs
        /\ OrderingArgs(ret.cmd) # <<>>) =>
           OrderingArgs(ret.cmd)
             = order_opts[KeyText(call.order, TRUE, call.tc_ch = 0)]

\* how many values the dimension of a letter of the order takes
DimCard(t, nt, nr, pairs) ==
    IF t = "t" THEN nt
    ELSE IF t = "r" THEN nr
    ELSE IF pairs THEN 2 ELSE 1

\* the product of the cardinalities of the letters before t in the order
RECURSIVE PeriodOf(_, _, _)
PeriodOf(order, nr, pairs) ==
    IF Head(order) = "t" THEN 1
    ELSE DimCard(Head(order), 0, nr, pairs)
         * PeriodOf(Tail(order), nr, pairs)

\* C26: for an order, T >= 2 timing points, R repeats, the pairs and the
\* tag-first flag, the distance on_paint finds between the first two
\* markers of the plain or tag volume is the product of the cardinalities
\* of the dimensions before t in the order (R for r, 2 for p with pairs and
\* 1 without), and the timing index of the k-th volume is
\* (k div period) mod T: it goes up after each period and wraps after T.
C26_TimingPeriod ==
    (call.method = "on_paint" /\ call.n_tis >= 2) =>
        LET period == PeriodOf(call.order, call.n_repeats, call.tc_pairs)
            ti == on_paint_ti(0, Len(ret.seq), 0, on_paint_ti_sep(ret.seq), call.n_tis)
        IN  /\ on_paint_ti_sep(ret.seq) = period
            /\ Len(ti) = Len(ret.seq)
            /\ \A k \in 1..Len(ti) : ti[k] = ((k - 1) \div period) % call.n_tis

\* the order rpt with pairs, control first, two timing points, three
\* repeats: the first marker 1 is the fourth volume and the period is 6
C26_Witness ==
    /\ call.method = "on_paint"
    /\ call.order = <<"r", "p", "t">> /\ call.tc_pairs /\ ~call.tagfirst
    /\ call.n_tis = 2 /\ call.n_repeats = 3
    /\ first_one(ret.seq, 0) = 3
    /\ on_paint_ti_sep(ret.seq) = 6

\* the bolus duration entered for the i-th PLD
BolusEntered(i) ==
    IF input.bolus_dur_ch = 0 THEN input.bolus_dur_num ELSE input.bolus_dur_list[i]

\* the i-th timing value: the PLD entered, with the bolus duration for the
\* cASL/pcASL labelling
TimingValue(i) ==
    IF input.labelling_ch = 1 THEN input.ti_list[i] + BolusEntered(i) ELSE input.ti_list[i]

\* C27: in the main command get_run_sequence compiles, --tis has as many
\* values as there are timing points and --bolus has one value (constant
\* bolus duration) or as many as there are timing points (variable),
\* whatever the changes of the number of timing points have been; the i-th
\* timing value is the i-th PLD entered plus the bolus duration of that
\* index for cASL/pcASL, and the PLD entered for pASL.
C27_TimingLists ==
    get_run_sequence(World).raised = None =>
        LET cmd == MainCmd(get_run_sequence(World).run)
            T == input.ntis_int
        IN  /\ Len(input.ti_list) = T /\ Len(input.bolus_dur_list) = T
            /\ HasTok(cmd, Tok("--tis", " ", JoinComma([i \in 1..T |-> Fmt2(TimingValue(i))])))
            /\ HasTok(cmd, Tok("--bolus", " ",
                               IF input.bolus_dur_ch = 0 THEN Fmt2(input.bolus_dur_num)
                               ELSE JoinComma([i \in 1..T |-> Fmt2(input.bolus_dur_list[i])])))
            /\ Cardinality({i \in 1..Len(cmd.args) : cmd.args[i].opt \in {"--tis", "--bolus"}})
                 = 2

\* two timing points after there were three, a variable bolus duration and
\* the cASL/pcASL labelling: 1.00 + 1.80 and 1.80 + 1.00
C27_Witness ==
    /\ input.ntis_int = 2 /\ input.labelling_ch = 1 /\ input.bolus_dur_ch = 1
    /\ input.ti_list = <<100, 180>> /\ input.bolus_dur_list = <<180, 100>>
    /\ run.run_label = ReadyToGo
    /\ HasTok(MainCmd(run.run_seq), Tok("--tis", " ", "2.80,2.80"))
    /\ HasTok(MainCmd(run.run_seq), Tok("--bolus", " ", "1.80,1.00"))

\* the values the options of a looked-up entry give to the option opt
ValuesOf(opts, opt) ==
    {i \in 1..Len(opts) : opts[i].opt = opt /\ opts[i].sep = "="}

\* C28: every entry of the order table yields exactly one --ibf= option and
\* exactly one --iaf= option; the --ibf value is tis for the orders trp and
\* ptr and rpt for the orders rtp and prt; the --iaf value is diff for a key
\* without pairs, tc or tcb for a ,tc key and ct or ctb for a ,ct key.
C28_TableConsistent ==
    (call.method = "get_data_order_options" /\ ret.raised = None) =>
        LET ibf == ValuesOf(ret.opts, "--ibf")
            iaf == ValuesOf(ret.opts, "--iaf")
            o == Str3(call.order)
        IN  /\ Cardinality(ibf) = 1 /\ Cardinality(iaf) = 1
            /\ \A i \in ibf : ret.opts[i].val = (IF o \in {"trp", "ptr"} THEN "tis" ELSE "rpt")
            /\ \A i \in iaf :
                   ret.opts[i].val \in (IF ~call.tc_pairs THEN {"diff"}
                                        ELSE IF call.tagfirst THEN {"tc", "tcb"}
                                        ELSE {"ct", "ctb"})

====
